---- MODULE Spec2Model ----
(***************************************************************************)
(* Model of the m1000 automated moderation engine:                         *)
(*   - the pattern optimizer and the regex leaf compiler                    *)
(*     (src/src/pattern/compiler.rs, regex.rs, string.rs),                  *)
(*   - the rule engine handle_status (src/src/main.rs, event/status.rs),    *)
(*   - the report ingest handle_report (src/src/event/report.rs),           *)
(*   - the webhook intake receive_webhook and the per-user worker           *)
(*     handle_events over a tokio broadcast channel (src/src/main.rs).      *)
(***************************************************************************)
EXTENDS Integers, Sequences, FiniteSets

(***************************************************************************)
(* Bounds of the model.                                                    *)
(***************************************************************************)
\* Largest node count of a pattern tree handed to optimize.
MaxNodes == 5

\* Regex leaves of a StringPattern.  An input string is modelled by the set
\* of regexes that match it.
Regexes == {"foo", "bar"}

None == [type |-> "None"]

(***************************************************************************)
(* PatternNode<L> (compiler.rs:7-12).                                      *)
(***************************************************************************)
Leaf(l) == [type |-> "Leaf", leaf |-> l]
Any(cs) == [type |-> "Any", children |-> cs]
All(cs) == [type |-> "All", children |-> cs]
Not(c) == [type |-> "Not", child |-> c]

IsGroup(node) == node.type \in {"Any", "All"}

RECURSIVE SumSeq(_)
SumSeq(s) == IF s = <<>> THEN 0 ELSE Head(s) + SumSeq(Tail(s))

RECURSIVE ConcatAll(_)
ConcatAll(ss) == IF ss = <<>> THEN <<>> ELSE Head(ss) \o ConcatAll(Tail(ss))

\* Visitable::count
RECURSIVE count(_)
count(node) ==
    CASE node.type = "Leaf" -> 1
      [] IsGroup(node) ->
            1 + SumSeq([i \in 1..Len(node.children) |-> count(node.children[i])])
      [] node.type = "Not" -> 1 + count(node.child)

\* All pattern trees with exactly n nodes; empty Any/All groups included,
\* since a config may contain `any: []`.
RECURSIVE TreesN(_), ListsN(_)
TreesN(n) ==
    IF n = 1
    THEN {Leaf(l) : l \in Regexes} \cup {Any(<<>>), All(<<>>)}
    ELSE {Not(t) : t \in TreesN(n - 1)}
         \cup {Any(cs) : cs \in ListsN(n - 1)}
         \cup {All(cs) : cs \in ListsN(n - 1)}
ListsN(m) ==
    UNION {{<<t>> \o rest : t \in TreesN(k),
                            rest \in (IF m = k THEN {<<>>} ELSE ListsN(m - k))}
           : k \in 1..m}

Trees == UNION {TreesN(n) : n \in 1..MaxNodes}

(***************************************************************************)
(* The rewrite rules (compiler.rs:93-194).  Each maps a node to a node or   *)
(* to None.                                                                 *)
(***************************************************************************)
\* Variant of drop_empty that also drops a group of a single child.
drop_empty_or_single(node) ==
    IF IsGroup(node) /\ Len(node.children) <= 1 THEN None ELSE node

\* Variant of drop_empty that keeps empty groups.
drop_empty_never(node) == node

drop_empty(node) ==
    IF IsGroup(node) /\ node.children = <<>> THEN None ELSE node

\* Variant of collapse_double_negative that leaves every node as it is.
collapse_double_negative_never(node) == node

collapse_double_negative(node) ==
    IF node.type = "Not" /\ node.child.type = "Not"
    THEN node.child.child
    ELSE node

pull_up_single_child(node) ==
    IF IsGroup(node) /\ Len(node.children) = 1
    THEN node.children[1]
    ELSE node

pull_up_same_type(node) ==
    IF IsGroup(node)
    THEN [type |-> node.type,
          children |-> ConcatAll([i \in 1..Len(node.children) |->
                           IF node.children[i].type = node.type
                           THEN node.children[i].children
                           ELSE <<node.children[i]>>])]
    ELSE node

\* Variant of de_morgan that keeps the type of the group.
de_morgan_same_type(node) ==
    IF IsGroup(node)
    THEN IF \A i \in 1..Len(node.children) : node.children[i].type = "Not"
         THEN Not([type |-> node.type,
                   children |-> [i \in 1..Len(node.children) |->
                                    node.children[i].child]])
         ELSE node
    ELSE node

de_morgan(node) ==
    IF IsGroup(node)
    THEN IF \A i \in 1..Len(node.children) : node.children[i].type = "Not"
         THEN Not([type |-> IF node.type = "Any" THEN "All" ELSE "Any",
                   children |-> [i \in 1..Len(node.children) |->
                                    node.children[i].child]])
         ELSE node
    ELSE node

\* The rules vector of optimize, in order.
NumRules == 5
rules(i, node) ==
    CASE i = 1 -> drop_empty(node)
      [] i = 2 -> collapse_double_negative(node)
      [] i = 3 -> pull_up_single_child(node)
      [] i = 4 -> pull_up_same_type(node)
      [] i = 5 -> de_morgan(node)

\* Visitable::visit: f is applied to the direct children of the node and then
\* to the node rebuilt from the results; it does not descend further.
visit(node, f) ==
    CASE node.type = "Leaf" -> rules(f, node)
      [] IsGroup(node) ->
            LET applied == [i \in 1..Len(node.children) |->
                               rules(f, node.children[i])]
                kept == SelectSeq(applied, LAMBDA c : c # None)
            IN rules(f, [type |-> node.type, children |-> kept])
      [] node.type = "Not" ->
            LET c == rules(f, node.child)
            IN IF c = None THEN None ELSE rules(f, Not(c))

\* Variant of accepts that also takes a pass that did not shrink the tree.
accepts_or_equal(applied, n) == count(applied) <= n

\* if applied.count() < num_nodes (compiler.rs:79)
accepts(applied, n) == count(applied) < n

(***************************************************************************)
(* RegexPatternMatcher (regex.rs).  A RegexSet is the sequence of its       *)
(* patterns; duplicates keep their own index.                               *)
(***************************************************************************)
AnyRegexes(rs) == [kind |-> "AnyRegexes", regexes |-> rs]
AllRegexes(rs) == [kind |-> "AllRegexes", regexes |-> rs]

\* Whether one regex matches the input string s.
RegexIsMatch(regex, s) == regex \in s

\* RegexSet::matches: the indices of the patterns that match s.
RegexSetMatches(rs, s) == {i \in 1..Len(rs) : RegexIsMatch(rs[i], s)}

\* RegexPatternMatcher::from
RECURSIVE RegexPatternMatcherFrom(_)
RegexPatternMatcherFrom(node) ==
    CASE node.type = "Leaf" -> AnyRegexes(<<node.leaf>>)
      [] IsGroup(node) ->
            LET leaves == SelectSeq(node.children, LAMBDA c : c.type = "Leaf")
                regexes == [i \in 1..Len(leaves) |-> leaves[i].leaf]
            IN IF Len(regexes) = Len(node.children)
               THEN [kind |-> IF node.type = "All" THEN "AllRegexes"
                                                   ELSE "AnyRegexes",
                     regexes |-> regexes]
               ELSE [kind |-> node.type,
                     children |-> [i \in 1..Len(node.children) |->
                                     RegexPatternMatcherFrom(node.children[i])]]
      [] node.type = "Not" ->
            [kind |-> "Not", child |-> RegexPatternMatcherFrom(node.child)]

\* Variant of all_regexes_is_match that is content with one hit.
all_regexes_is_match_any(rs, s) == RegexSetMatches(rs, s) # {}

\* regexes.len() == regexes.matches(s).into_iter().count()
all_regexes_is_match(rs, s) == Len(rs) = Cardinality(RegexSetMatches(rs, s))

\* impl Matcher<&str> for RegexPatternMatcher
RECURSIVE is_match(_, _)
is_match(m, s) ==
    CASE m.kind = "AnyRegexes" -> RegexSetMatches(m.regexes, s) # {}
      [] m.kind = "AllRegexes" -> all_regexes_is_match(m.regexes, s)
      [] m.kind = "Any" ->
            \E i \in 1..Len(m.children) : is_match(m.children[i], s)
      [] m.kind = "All" ->
            \A i \in 1..Len(m.children) : is_match(m.children[i], s)
      [] m.kind = "Not" -> ~is_match(m.child, s)

\* Direct interpretation of a pattern tree: Any = at least one child true,
\* All = every child true, Not = negation, leaf = its own test.
RECURSIVE eval_naive(_, _)
eval_naive(node, s) ==
    CASE node.type = "Leaf" -> RegexIsMatch(node.leaf, s)
      [] node.type = "Any" ->
            \E i \in 1..Len(node.children) : eval_naive(node.children[i], s)
      [] node.type = "All" ->
            \A i \in 1..Len(node.children) : eval_naive(node.children[i], s)
      [] node.type = "Not" -> ~eval_naive(node.child, s)

Inputs == SUBSET Regexes

(***************************************************************************)
(* Rule engine data (config.rs, pattern/rule.rs, event/status.rs).          *)
(***************************************************************************)
Some(x) == [type |-> "Some", value |-> x]

\* enum Restrict, in declaration order; the derived Ord follows it.
Restrict == <<"Sensitive", "Disable", "Silence", "Suspend">>

RestrictOrd(r) == CHOOSE i \in 1..Len(Restrict) : Restrict[i] = r

\* Variant of restrict_gt in which the later rule always wins.
restrict_gt_last(restrict, existing_restrict) == TRUE

\* restrict > existing_restrict
restrict_gt(restrict, existing_restrict) ==
    RestrictOrd(restrict) > RestrictOrd(existing_restrict)

\* RuleMatcherInner: leaves Account(matcher), Post(matcher), Rspamd(action).
\* Account and Post matchers are text matchers over the extracted text.
AccountM(m) == [kind |-> "Account", matcher |-> m]
PostM(m) == [kind |-> "Post", matcher |-> m]
RspamdM(action) == [kind |-> "Rspamd", action |-> action]

\* Variant of rspamd_leaf in which an unset input.rspamd matches.
rspamd_leaf_unset_matches(action, rspamd) ==
    IF rspamd = None THEN TRUE ELSE action = rspamd.value

\* input.rspamd.as_ref().map(|input_action| action == input_action)
\*     .unwrap_or(false)
rspamd_leaf(action, rspamd) ==
    IF rspamd = None THEN FALSE ELSE action = rspamd.value

\* impl Matcher<&RuleMatcherInput> for RuleMatcherInner
RECURSIVE rule_is_match(_, _)
rule_is_match(m, input) ==
    CASE m.kind = "Account" -> is_match(m.matcher, input.account)
      [] m.kind = "Post" -> is_match(m.matcher, input.post)
      [] m.kind = "Rspamd" -> rspamd_leaf(m.action, input.rspamd)
      [] m.kind = "Any" ->
            \E i \in 1..Len(m.children) : rule_is_match(m.children[i], input)
      [] m.kind = "All" ->
            \A i \in 1..Len(m.children) : rule_is_match(m.children[i], input)
      [] m.kind = "Not" -> ~rule_is_match(m.child, input)

\* Variant of rule_fires that wants every matcher of the rule to match.
rule_fires_all(rule, input) ==
    \A i \in 1..Len(rule.matchers) : rule_is_match(rule.matchers[i], input)

\* rule.matchers.iter().any(|matcher| matcher.is_match(&rule_matcher_input))
rule_fires(rule, input) ==
    \E i \in 1..Len(rule.matchers) : rule_is_match(rule.matchers[i], input)

\* impl From<&Status> for RuleMatcherInput
RuleMatcherInput(status) ==
    [account |-> status.account.text, post |-> status.text, rspamd |-> None]

\* ReportBuilder::default()
ReportBuilderDefault ==
    [rule_names |-> {}, rule_ids |-> {}, spam |-> FALSE, forward |-> FALSE]

\* Variant of rule_violation in which the forward flag of the latest rule
\* replaces the accumulated one.
rule_violation_last_forward(rb, rule_name, report) ==
    [rule_names |-> rb.rule_names \cup {rule_name},
     rule_ids |-> rb.rule_ids
                  \cup {report.rule_ids[i] : i \in 1..Len(report.rule_ids)},
     spam |-> rb.spam \/ report.spam,
     forward |-> report.forward]

\* ReportBuilder::rule_violation
rule_violation(rb, rule_name, report) ==
    [rule_names |-> rb.rule_names \cup {rule_name},
     rule_ids |-> rb.rule_ids
                  \cup {report.rule_ids[i] : i \in 1..Len(report.rule_ids)},
     spam |-> rb.spam \/ report.spam,
     forward |-> rb.forward \/ report.forward]

\* Code-point order of the rule names used in the model.
RuleNames == <<"alpha", "beta", "delta", "gamma">>
NameOrd(n) == CHOOSE i \in 1..Len(RuleNames) : RuleNames[i] = n

\* rule_names_list.sort(): the names of a set in ascending order.
RECURSIVE sorted(_)
sorted(names) ==
    IF names = {} THEN <<>>
    ELSE LET least == CHOOSE n \in names :
                          \A o \in names : NameOrd(n) <= NameOrd(o)
         IN <<least>> \o sorted(names \ {least})

\* Variant of category that tests the spam flag before the rule ids.
category_spam_first(rb) ==
    IF rb.spam THEN "Spam"
    ELSE IF rb.rule_ids # {} THEN "Violation"
    ELSE "Other"

\* The category branch of report_status.
category(rb) ==
    IF rb.rule_ids # {} THEN "Violation"
    ELSE IF rb.spam THEN "Spam"
    ELSE "Other"

\* The AddReportRequest built by report_status.
AddReportRequest(status, rb) ==
    [op |-> "add_report",
     account_id |-> status.account.id,
     status_ids |-> <<status.id>>,
     comment |-> sorted(rb.rule_names),
     category |-> category(rb),
     rule_ids |-> IF rb.rule_ids # {} THEN rb.rule_ids ELSE {},
     forward |-> rb.forward]

\* The AccountActionRequest built by restrict_account; the action verb has
\* the name of the restriction.
AccountActionRequest(status, restrict, report_id) ==
    [op |-> "account_action",
     account_id |-> status.account.id,
     action |-> restrict,
     report_id |-> report_id]

(***************************************************************************)
(* Webhook intake data (websub.rs, webhook.rs, main.rs).                    *)
(***************************************************************************)
Err == [type |-> "Err"]
Ok(x) == [type |-> "Ok", value |-> x]

\* Scaled-down stand-in for EVENT_CHANNEL_SIZE (256 in main.rs:147), the
\* capacity of each domain's broadcast channel.
EVENT_CHANNEL_SIZE == 2

\* Largest number of events published to one domain's channel.
MaxSend == 3

\* Largest number of rules in a config.
MaxRules == 2

Domains == {"d1", "d2"}
Workers == {"w1", "w2"}
Secrets == {"s1", "s2"}

\* enum XHubSignatureAlgorithm
XHubSignatureAlgorithm == {"sha1", "sha256", "sha384", "sha512"}

\* The MAC of body under key: distinct (algorithm, key, body) give distinct
\* digests.
Hmac(algorithm, key, body) == <<algorithm, key, body>>

\* XHubSignature::is_valid
is_valid(x_hub_signature, secret, body) ==
    x_hub_signature.signature = Hmac(x_hub_signature.algorithm, secret, body)

\* Accounts and statuses carried by events.  text is the set of regexes that
\* match the extracted text.
AccountA == [type |-> "Account", id |-> "acct1", text |-> {}]
StatusFoo == [type |-> "Status", id |-> "p1", text |-> {"foo"},
              account |-> AccountA]
StatusBar == [type |-> "Status", id |-> "p2", text |-> {"bar"},
              account |-> AccountA]
StatusNone == [type |-> "Status", id |-> "p3", text |-> {},
               account |-> AccountA]
Statuses == {StatusFoo, StatusBar, StatusNone}

\* A request body: the JSON envelope {"event": .., "object": ..}, or text
\* that is not JSON.
Envelope(kind, object) == [type |-> "Json", event |-> kind, object |-> object]
NotJson == [type |-> "Text"]

\* serde_json::from_slice::<webhook::Event>: the tag selects the variant, the
\* object must have the variant's payload type, any other tag is Unknown.
DecodeEvent(body) ==
    IF body.type # "Json" THEN Err
    ELSE CASE body.event \in {"status.created", "status.updated"} ->
                 IF body.object.type = "Status"
                 THEN Ok([kind |-> body.event, status |-> body.object])
                 ELSE Err
           [] body.event \in {"report.created", "report.updated"} ->
                 IF body.object.type = "Report"
                 THEN Ok([kind |-> body.event, report |-> body.object])
                 ELSE Err
           [] body.event \in {"account.approved", "account.created",
                              "account.updated"} ->
                 IF body.object.type = "Account"
                 THEN Ok([kind |-> body.event, account |-> body.object])
                 ELSE Err
           [] OTHER -> Ok([kind |-> "unknown"])

(***************************************************************************)
(* State.                                                                   *)
(***************************************************************************)
VARIABLES
    root,       \* the tree handed to optimize
    current,    \* optimize: let mut current
    progress,   \* optimize: let mut progress
    num_nodes,  \* optimize: let num_nodes
    rule_idx,   \* optimize: position of `for rule in rules.iter()`
    passes,     \* number of iterations of the while loop started so far
    opt_pc,     \* "while", "for", "ok", "bail", "compiled"; "idle" if unused
    matcher,    \* the compiled StringMatcher, None before compilation
    verdict,    \* the last evaluation of a text leaf: [leaf, input, result]
    settings,   \* Settings: [rspamc_command]
    config,     \* per worker: CompiledConfig [domain, username, rules]
    secrets,    \* domain_handler_map: domain -> webhook_secret
    tail_pos,   \* per domain channel: number of events sent so far
    buffer,     \* per domain channel: the retained (most recent) events
    closed,     \* TRUE once the senders have been dropped
    published,  \* per domain channel: every event sent so far, in order
    next,       \* per worker: receiver position (next event to read)
    wpc,        \* per worker: "off", "recv", "handle_status", "done"
    hs,         \* per worker: the locals of the running handle_status
    processed,  \* per worker: log of [pos, event, result] of events received
    lagged,     \* per worker: log of the skip counts of RecvError::Lagged
    last        \* the last webhook request, its response and what it sent

optVars == <<root, current, progress, num_nodes, rule_idx, passes, opt_pc,
             matcher, verdict>>
cfgVars == <<settings, config, secrets>>
chanVars == <<tail_pos, buffer, closed, published>>
workerVars == <<next, wpc, hs, processed, lagged>>

vars == <<optVars, cfgVars, chanVars, workerVars, last>>

\* The locals of handle_status before it is called (status.rs:21-23).
HsIdle ==
    [pc |-> "idle", status |-> None, input |-> None, report_builder |-> None,
     highest_restrict |-> None, rule_idx |-> 0, report_id |-> None,
     calls |-> <<>>]

\* The rules every worker runs when the config is not the subject.
ServeRules ==
    <<[name |-> "alpha",
       report |-> Some([rule_ids |-> <<"1">>, spam |-> FALSE,
                        forward |-> FALSE]),
       restrict |-> Some("Silence"),
       matchers |-> <<PostM(AnyRegexes(<<"foo">>))>>],
      [name |-> "beta",
       report |-> None,
       restrict |-> Some("Suspend"),
       matchers |-> <<RspamdM("reject")>>]>>

ServeConfig(w, d) == [domain |-> d, username |-> w, rules |-> ServeRules]

NoRequest == [status |-> 0]

IdleServe ==
    /\ settings = [rspamc_command |-> None]
    /\ config = [w \in Workers |-> ServeConfig(w, "d1")]
    /\ secrets = [d \in Domains |-> "s1"]
    /\ tail_pos = [d \in Domains |-> 0]
    /\ buffer = [d \in Domains |-> <<>>]
    /\ closed = FALSE
    /\ published = [d \in Domains |-> <<>>]
    /\ next = [w \in Workers |-> 0]
    /\ wpc = [w \in Workers |-> "off"]
    /\ hs = [w \in Workers |-> HsIdle]
    /\ processed = [w \in Workers |-> <<>>]
    /\ lagged = [w \in Workers |-> <<>>]
    /\ last = NoRequest

IdleOptimize ==
    /\ root = None
    /\ current = None
    /\ progress = FALSE
    /\ num_nodes = 0
    /\ rule_idx = 0
    /\ passes = 0
    /\ opt_pc = "idle"
    /\ matcher = None
    /\ verdict = None

(***************************************************************************)
(* optimize (compiler.rs:63-91) and StringPattern::compile                   *)
(* (string.rs:40-46).                                                       *)
(***************************************************************************)
InitOptimize ==
    /\ root \in Trees
    /\ current = root
    /\ progress = TRUE
    /\ num_nodes = 0
    /\ rule_idx = 0
    /\ passes = 0
    /\ opt_pc = "while"
    /\ matcher = None
    /\ verdict = None
    /\ IdleServe

\* Variant of while_continues that runs the body at most once.
while_continues_once(p, n) == p /\ n = 0

\* `while progress`: whether the loop body runs again, p being progress and
\* n the number of passes made so far.
while_continues(p, n) == p

\* while progress { progress = false; let num_nodes = current.count(); ...
\* falls out to Ok(current) when no pass made progress.
OptimizeWhile ==
    /\ opt_pc = "while"
    /\ IF while_continues(progress, passes)
       THEN /\ progress' = FALSE
            /\ num_nodes' = count(current)
            /\ rule_idx' = 1
            /\ passes' = passes + 1
            /\ opt_pc' = "for"
       ELSE /\ opt_pc' = "ok"
            /\ UNCHANGED <<progress, num_nodes, rule_idx, passes>>
    /\ UNCHANGED <<root, current, matcher, verdict>>
    /\ UNCHANGED <<cfgVars, chanVars, workerVars, last>>

\* One iteration of `for rule in rules.iter()`.
OptimizeFor ==
    /\ opt_pc = "for"
    /\ IF rule_idx > NumRules
       THEN /\ opt_pc' = "while"
            /\ UNCHANGED <<current, progress, rule_idx>>
       ELSE LET applied == visit(current, rule_idx)
            IN IF applied = None
               THEN /\ opt_pc' = "bail"
                    /\ UNCHANGED <<current, progress, rule_idx>>
               ELSE IF accepts(applied, num_nodes)
               THEN /\ current' = applied
                    /\ progress' = TRUE
                    /\ opt_pc' = "while"
                    /\ UNCHANGED rule_idx
               ELSE /\ rule_idx' = rule_idx + 1
                    /\ UNCHANGED <<current, progress, opt_pc>>
    /\ UNCHANGED <<root, num_nodes, passes, matcher, verdict>>
    /\ UNCHANGED <<cfgVars, chanVars, workerVars, last>>

\* StringPattern::compile: RegexPatternMatcher::from(optimize(..)?)
Compile ==
    /\ opt_pc = "ok"
    /\ matcher' = RegexPatternMatcherFrom(current)
    /\ opt_pc' = "compiled"
    /\ UNCHANGED <<root, current, progress, num_nodes, rule_idx, passes,
                   verdict>>
    /\ UNCHANGED <<cfgVars, chanVars, workerVars, last>>


\* optimize as a function.  for_rules is `for rule in rules.iter()` from rule
\* i on: Err when a rule reduces the tree to nothing, else the tree after the
\* first accepted rule, or the same tree and no progress.
RECURSIVE for_rules(_, _, _)
for_rules(cur, n, i) ==
    IF i > NumRules THEN [progress |-> FALSE, current |-> cur]
    ELSE LET applied == visit(cur, i)
         IN IF applied = None THEN Err
            ELSE IF accepts(applied, n)
            THEN [progress |-> TRUE, current |-> applied]
            ELSE for_rules(cur, n, i + 1)

\* The while loop from the locals current = cur, progress = p, after n
\* passes.
RECURSIVE optimize_loop(_, _, _)
optimize_loop(cur, p, n) ==
    IF while_continues(p, n)
    THEN LET pass == for_rules(cur, count(cur), 1)
         IN IF pass = Err THEN Err
            ELSE optimize_loop(pass.current, pass.progress, n + 1)
    ELSE Ok(cur)

\* optimize(root): Ok(tree) or Err('Reduced to nothingness').
optimize(node) == optimize_loop(node, TRUE, 0)

NextOptimize == OptimizeWhile \/ OptimizeFor \/ Compile

SpecOptimize == InitOptimize /\ [][NextOptimize]_vars

\* The compiler on groups of negated leaves: Any or All of up to MaxLeaves
\* negated regex leaves, bare or under a Not.
MaxLeaves == 3

NegatedLeaves ==
    UNION {[1..n -> {Not(Leaf(l)) : l \in Regexes}] : n \in 0..MaxLeaves}

NegatedGroups ==
    {Any(cs) : cs \in NegatedLeaves} \cup {All(cs) : cs \in NegatedLeaves}
    \cup {Not(Any(cs)) : cs \in NegatedLeaves}
    \cup {Not(All(cs)) : cs \in NegatedLeaves}

InitNegated ==
    /\ root \in NegatedGroups
    /\ current = root
    /\ progress = TRUE
    /\ num_nodes = 0
    /\ rule_idx = 0
    /\ passes = 0
    /\ opt_pc = "while"
    /\ matcher = None
    /\ verdict = None
    /\ IdleServe

SpecNegated == InitNegated /\ [][NextOptimize]_vars

(***************************************************************************)
(* Link, user, text and post matchers (pattern/link.rs, user.rs, text.rs,   *)
(* post.rs) and LinkPattern::compile (link.rs:173-179).                     *)
(***************************************************************************)
\* Largest node count of a link pattern tree handed to optimize.
MaxLinkNodes == 4

\* Largest numbers of links, mentions and hashtags of one post.
MaxLinks == 2
MaxMentions == 1
MaxHashtags == 1

\* enum LinkPatternLeaf: a regex over the whole URL or over its host name.
LinkRegex(r) == [kind |-> "Regex", re |-> r]
LinkDomain(d) == [kind |-> "Domain", re |-> d]

LinkLeaves == {LinkRegex("casino"), LinkDomain("spam.test")}

\* A Url.  str is the set of whole-URL regexes that match url.as_str();
\* domain is url.domain(): None for a URL without a host name, else the set
\* of domain regexes that match the host name.
Urls ==
    {[str |-> s, domain |-> d] :
        s \in SUBSET {"casino"}, d \in {None, Some({}), Some({"spam.test"})}}

\* All link pattern trees with exactly n nodes.
RECURSIVE LinkTreesN(_), LinkListsN(_)
LinkTreesN(n) ==
    IF n = 1
    THEN {Leaf(l) : l \in LinkLeaves} \cup {Any(<<>>), All(<<>>)}
    ELSE {Not(t) : t \in LinkTreesN(n - 1)}
         \cup {Any(cs) : cs \in LinkListsN(n - 1)}
         \cup {All(cs) : cs \in LinkListsN(n - 1)}
LinkListsN(m) ==
    UNION {{<<t>> \o rest : t \in LinkTreesN(k),
                            rest \in (IF m = k THEN {<<>>}
                                      ELSE LinkListsN(m - k))}
           : k \in 1..m}

LinkTrees == UNION {LinkTreesN(n) : n \in 1..MaxLinkNodes}

AnyDomains(ds) == [kind |-> "AnyDomains", regexes |-> ds]
AllDomains(ds) == [kind |-> "AllDomains", regexes |-> ds]

\* The flat_map of LinkMatcherInner::from: the patterns of the children that
\* are leaves of the given kind, in order.
leaves_of_kind(children, kind) ==
    LET leaves == SelectSeq(children, LAMBDA c : c.type = "Leaf"
                                                 /\ c.leaf.kind = kind)
    IN [i \in 1..Len(leaves) |-> leaves[i].leaf.re]

\* Variant of all_of_kind that is content with one leaf of the kind.
some_of_kind(leaves, children) == Len(leaves) > 0

\* regexes.len() == children.len(), domains.len() == children.len()
all_of_kind(leaves, children) == Len(leaves) = Len(children)

\* LinkMatcherInner::from
RECURSIVE LinkMatcherFrom(_)
LinkMatcherFrom(node) ==
    CASE node.type = "Leaf" ->
            IF node.leaf.kind = "Regex" THEN AnyRegexes(<<node.leaf.re>>)
            ELSE AnyDomains(<<node.leaf.re>>)
      [] IsGroup(node) ->
            LET regexes == leaves_of_kind(node.children, "Regex")
                domains == leaves_of_kind(node.children, "Domain")
            IN IF all_of_kind(regexes, node.children)
               THEN [kind |-> IF node.type = "All" THEN "AllRegexes"
                                                   ELSE "AnyRegexes",
                     regexes |-> regexes]
               ELSE IF all_of_kind(domains, node.children)
               THEN [kind |-> IF node.type = "All" THEN "AllDomains"
                                                   ELSE "AnyDomains",
                     regexes |-> domains]
               ELSE [kind |-> node.type,
                     children |-> [i \in 1..Len(node.children) |->
                                     LinkMatcherFrom(node.children[i])]]
      [] node.type = "Not" ->
            [kind |-> "Not", child |-> LinkMatcherFrom(node.child)]

\* impl Matcher<&Url> for LinkMatcherInner
RECURSIVE link_is_match(_, _)
link_is_match(m, url) ==
    CASE m.kind = "AnyRegexes" -> RegexSetMatches(m.regexes, url.str) # {}
      [] m.kind = "AllRegexes" -> all_regexes_is_match(m.regexes, url.str)
      [] m.kind = "AnyDomains" ->
            IF url.domain # None
            THEN RegexSetMatches(m.regexes, url.domain.value) # {}
            ELSE FALSE
      [] m.kind = "AllDomains" ->
            IF url.domain # None
            THEN Len(m.regexes)
                 = Cardinality(RegexSetMatches(m.regexes, url.domain.value))
            ELSE FALSE
      [] m.kind = "Any" ->
            \E i \in 1..Len(m.children) : link_is_match(m.children[i], url)
      [] m.kind = "All" ->
            \A i \in 1..Len(m.children) : link_is_match(m.children[i], url)
      [] m.kind = "Not" -> ~link_is_match(m.child, url)

\* Direct interpretation of a link pattern tree: a whole-URL leaf tests the
\* URL string, a domain leaf tests the host name.
RECURSIVE link_eval_naive(_, _)
link_eval_naive(node, url) ==
    CASE node.type = "Leaf" ->
            IF node.leaf.kind = "Regex" THEN RegexIsMatch(node.leaf.re, url.str)
            ELSE url.domain # None
                 /\ RegexIsMatch(node.leaf.re, url.domain.value)
      [] node.type = "Any" ->
            \E i \in 1..Len(node.children) :
                link_eval_naive(node.children[i], url)
      [] node.type = "All" ->
            \A i \in 1..Len(node.children) :
                link_eval_naive(node.children[i], url)
      [] node.type = "Not" -> ~link_eval_naive(node.child, url)

\* UserMatcherInner: leaves Username(matcher), Instance(matcher), Local(bool).
UserUsername(m) == [kind |-> "Username", matcher |-> m]
UserInstance(m) == [kind |-> "Instance", matcher |-> m]
UserLocal(b) == [kind |-> "Local", local |-> b]

\* A UserMatcherInput: username is the set of regexes that match the user
\* name; domain is None for a local user, else the set of regexes that match
\* the domain.
Users ==
    {[username |-> {"foo"}, domain |-> None],
     [username |-> {}, domain |-> Some({"bar"})]}

\* impl Matcher<&UserMatcherInput> for UserMatcherInner
RECURSIVE user_is_match(_, _)
user_is_match(m, input) ==
    CASE m.kind = "Username" -> is_match(m.matcher, input.username)
      [] m.kind = "Instance" ->
            IF input.domain # None THEN is_match(m.matcher, input.domain.value)
            ELSE FALSE
      [] m.kind = "Local" -> m.local = (input.domain = None)
      [] m.kind = "Any" ->
            \E i \in 1..Len(m.children) : user_is_match(m.children[i], input)
      [] m.kind = "All" ->
            \A i \in 1..Len(m.children) : user_is_match(m.children[i], input)
      [] m.kind = "Not" -> ~user_is_match(m.child, input)

\* TextMatcherInner: the leaves over the collections of a text input.
TextLink(m) == [kind |-> "Link", matcher |-> m]
TextMention(m) == [kind |-> "Mention", matcher |-> m]
TextHashtag(m) == [kind |-> "Hashtag", matcher |-> m]

\* Variant of any_link that wants every link to match.
any_link_every(m, links) == \A url \in links : link_is_match(m, url)

\* input.links.iter().any(|url| matcher.is_match(url))
any_link(m, links) == \E url \in links : link_is_match(m, url)

\* impl Matcher<&TextMatcherInput> for TextMatcherInner
RECURSIVE text_is_match(_, _)
text_is_match(m, input) ==
    CASE m.kind = "AllRegexes" -> all_regexes_is_match(m.regexes, input.text)
      [] m.kind = "AnyRegexes" -> RegexSetMatches(m.regexes, input.text) # {}
      [] m.kind = "Link" -> any_link(m.matcher, input.links)
      [] m.kind = "Mention" ->
            \E mention \in input.mentions : user_is_match(m.matcher, mention)
      [] m.kind = "Hashtag" ->
            \E hashtag \in input.hashtags : is_match(m.matcher, hashtag)
      [] m.kind = "Any" ->
            \E i \in 1..Len(m.children) : text_is_match(m.children[i], input)
      [] m.kind = "All" ->
            \A i \in 1..Len(m.children) : text_is_match(m.children[i], input)
      [] m.kind = "Not" -> ~text_is_match(m.child, input)

\* PostMatcherInner::Text
PostText(m) == [kind |-> "Text", matcher |-> m]

\* impl Matcher<&PostMatcherInput> for PostMatcherInner
RECURSIVE post_is_match(_, _)
post_is_match(m, input) ==
    CASE m.kind = "Text" -> text_is_match(m.matcher, input.text)
      [] m.kind = "Any" ->
            \E i \in 1..Len(m.children) : post_is_match(m.children[i], input)
      [] m.kind = "All" ->
            \A i \in 1..Len(m.children) : post_is_match(m.children[i], input)
      [] m.kind = "Not" -> ~post_is_match(m.child, input)

\* RuleMatcherInner::Post(matcher) => matcher.is_match(&input.post)
rule_post_is_match(m, input) == post_is_match(m.matcher, input.post)

\* The sets of at most n members of s.
AtMost(s, n) == {t \in SUBSET s : Cardinality(t) <= n}

\* A hashtag is modelled by the set of regexes that match its name.
Hashtags == SUBSET {"foo"}

\* The TextMatcherInput values of the model.
TextMatcherInputs ==
    {[text |-> {}, links |-> l, mentions |-> m, hashtags |-> h] :
        l \in AtMost(Urls, MaxLinks), m \in AtMost(Users, MaxMentions),
        h \in AtMost(Hashtags, MaxHashtags)}

\* The compiled user and hashtag matchers a Mention or Hashtag leaf holds.
UserMatchers ==
    {UserLocal(TRUE), UserUsername(AnyRegexes(<<"foo">>)),
     UserInstance(AnyRegexes(<<"bar">>))}
HashtagMatchers == {AnyRegexes(<<"foo">>)}

InitLink ==
    /\ root \in LinkTrees
    /\ current = root
    /\ progress = TRUE
    /\ num_nodes = 0
    /\ rule_idx = 0
    /\ passes = 0
    /\ opt_pc = "while"
    /\ matcher = None
    /\ verdict = None
    /\ IdleServe

\* LinkPattern::compile: LinkMatcherInner::from(optimize(..)?)
CompileLink ==
    /\ opt_pc = "ok"
    /\ matcher' = LinkMatcherFrom(current)
    /\ opt_pc' = "compiled"
    /\ UNCHANGED <<root, current, progress, num_nodes, rule_idx, passes,
                   verdict>>
    /\ UNCHANGED <<cfgVars, chanVars, workerVars, last>>

\* A rule Post(Text(leaf)) is matched against the input of a post; the leaf
\* is the compiled link matcher under Link, or a Mention or Hashtag leaf.
TextIsMatch ==
    /\ opt_pc = "compiled"
    /\ \E leaf \in {TextLink(matcher)}
                   \cup {TextMention(m) : m \in UserMatchers}
                   \cup {TextHashtag(m) : m \in HashtagMatchers},
          input \in TextMatcherInputs :
            verdict' = [leaf |-> leaf, input |-> input,
                        result |-> rule_post_is_match(PostM(PostText(leaf)),
                                       [post |-> [text |-> input]])]
    /\ opt_pc' = "matched"
    /\ UNCHANGED <<root, current, progress, num_nodes, rule_idx, passes,
                   matcher>>
    /\ UNCHANGED <<cfgVars, chanVars, workerVars, last>>

NextLink == OptimizeWhile \/ OptimizeFor \/ CompileLink \/ TextIsMatch

SpecLink == InitLink /\ [][NextLink]_vars

(***************************************************************************)
(* handle_status (event/status.rs:15-72, main.rs:391-448), one action per    *)
(* stretch between awaits, run by worker w.                                 *)
(***************************************************************************)
\* Results the outbound adapters can give.
RspamdActions == {"reject", "no action"}
ReportIds == {"rep1", "rep2"}

\* Variant of HsEntry in which the accumulator is not created anew: it
\* starts as the empty report left by an earlier call.
HsEntryKept(status) ==
    [pc |-> "scan", status |-> status, input |-> RuleMatcherInput(status),
     report_builder |-> Some(ReportBuilderDefault), highest_restrict |-> None,
     rule_idx |-> 1, report_id |-> None, calls |-> <<>>]

\* The locals at entry: report_builder, highest_restrict, rule_matcher_input.
HsEntry(status) ==
    [pc |-> "scan", status |-> status, input |-> RuleMatcherInput(status),
     report_builder |-> None, highest_restrict |-> None, rule_idx |-> 1,
     report_id |-> None, calls |-> <<>>]

\* Variant of scan_arm that goes on to the rules after a failed scan.
scan_arm_ignore(result) == "rules"

\* rspamd_scan(..).await?: an Err returns from handle_status at once.
scan_arm(result) == IF result = Err THEN "err" ELSE "rules"

\* if settings.rspamc_command.is_some() { rspamd_scan(..).await?; .. }
RspamdScan(w) ==
    /\ wpc[w] = "handle_status"
    /\ hs[w].pc = "scan"
    /\ IF settings.rspamc_command # None
       THEN \E result \in {Ok(a) : a \in RspamdActions} \cup {Err} :
               IF result = Err
               THEN hs' = [hs EXCEPT ![w].pc = scan_arm(result)]
               ELSE hs' = [hs EXCEPT ![w].pc = scan_arm(result),
                                     ![w].input.rspamd = Some(result.value)]
       ELSE hs' = [hs EXCEPT ![w].pc = "rules"]
    /\ UNCHANGED <<next, wpc, processed, lagged>>
    /\ UNCHANGED <<optVars, cfgVars, chanVars, last>>

\* One iteration of `for rule in config.rules.iter()`.
WalkRule(w) ==
    /\ wpc[w] = "handle_status"
    /\ hs[w].pc = "rules"
    /\ hs[w].rule_idx <= Len(config[w].rules)
    /\ LET h == hs[w]
           rule == config[w].rules[h.rule_idx]
           fired == rule_fires(rule, h.input)
           builder == IF h.report_builder = None THEN ReportBuilderDefault
                      ELSE h.report_builder.value
           report_builder ==
               IF fired /\ rule.report # None
               THEN Some(rule_violation(builder, rule.name, rule.report.value))
               ELSE h.report_builder
           highest_restrict ==
               IF fired /\ rule.restrict # None
               THEN IF h.highest_restrict # None
                    THEN IF restrict_gt(rule.restrict.value,
                                        h.highest_restrict.value)
                         THEN rule.restrict
                         ELSE h.highest_restrict
                    ELSE rule.restrict
               ELSE h.highest_restrict
       IN hs' = [hs EXCEPT ![w].report_builder = report_builder,
                           ![w].highest_restrict = highest_restrict,
                           ![w].rule_idx = h.rule_idx + 1]
    /\ UNCHANGED <<next, wpc, processed, lagged>>
    /\ UNCHANGED <<optVars, cfgVars, chanVars, last>>

\* Variant of result_ok that loses the report id.
result_ok_none(result) == None

\* result.ok()
result_ok(result) == IF result = Err THEN None ELSE Some(result.value)

\* let report_id = if let Some(report_builder) = report_builder {
\*     report_status(..).await ... result.ok() } else { None };
ReportStatus(w) ==
    /\ wpc[w] = "handle_status"
    /\ hs[w].pc = "rules"
    /\ hs[w].rule_idx > Len(config[w].rules)
    /\ LET h == hs[w]
       IN IF h.report_builder # None
          THEN \E result \in {Ok(id) : id \in ReportIds} \cup {Err} :
                  hs' = [hs EXCEPT
                           ![w].pc = "restrict",
                           ![w].report_id = result_ok(result),
                           ![w].calls = Append(h.calls,
                               [request |-> AddReportRequest(h.status,
                                                h.report_builder.value),
                                result |-> result])]
          ELSE hs' = [hs EXCEPT ![w].pc = "restrict", ![w].report_id = None]
    /\ UNCHANGED <<next, wpc, processed, lagged>>
    /\ UNCHANGED <<optVars, cfgVars, chanVars, last>>

\* if let Some(restrict) = highest_restrict {
\*     restrict_account(.., restrict, report_id).await?; }  Ok(())
RestrictAccount(w) ==
    /\ wpc[w] = "handle_status"
    /\ hs[w].pc = "restrict"
    /\ LET h == hs[w]
       IN IF h.highest_restrict # None
          THEN \E result \in {Ok("done"), Err} :
                  hs' = [hs EXCEPT
                           ![w].pc = IF result = Err THEN "err" ELSE "ok",
                           ![w].calls = Append(h.calls,
                               [request |-> AccountActionRequest(h.status,
                                                h.highest_restrict.value,
                                                h.report_id),
                                result |-> result])]
          ELSE hs' = [hs EXCEPT ![w].pc = "ok"]
    /\ UNCHANGED <<next, wpc, processed, lagged>>
    /\ UNCHANGED <<optVars, cfgVars, chanVars, last>>

HandleStatus(w) ==
    RspamdScan(w) \/ WalkRule(w) \/ ReportStatus(w) \/ RestrictAccount(w)

(***************************************************************************)
(* The rule engine on its own: worker w1 runs handle_status once, for any    *)
(* config of at most MaxRules rules, any status and either setting.         *)
(***************************************************************************)
ReportChoices ==
    {None,
     Some([rule_ids |-> <<>>, spam |-> FALSE, forward |-> FALSE]),
     Some([rule_ids |-> <<"1">>, spam |-> FALSE, forward |-> TRUE]),
     Some([rule_ids |-> <<>>, spam |-> TRUE, forward |-> FALSE])}

RestrictChoices == {None} \cup {Some(Restrict[i]) : i \in 1..Len(Restrict)}

MatcherChoices ==
    {[name |-> "alpha", matchers |-> <<PostM(AnyRegexes(<<"foo">>))>>],
     [name |-> "beta", matchers |-> <<RspamdM("reject"),
                                      PostM(AnyRegexes(<<"bar">>))>>]}

\* Every combination of matchers, report and restrict, one rule whose only
\* pattern is an Rspamd leaf, and one rule without patterns.
RuleChoices ==
    {[name |-> m.name, report |-> rep, restrict |-> res,
      matchers |-> m.matchers] :
        m \in MatcherChoices, rep \in ReportChoices, res \in RestrictChoices}
    \cup {[name |-> "delta",
           report |-> Some([rule_ids |-> <<"3">>, spam |-> FALSE,
                            forward |-> FALSE]),
           restrict |-> Some("Disable"),
           matchers |-> <<RspamdM("reject")>>]}
    \cup {[name |-> "gamma",
           report |-> Some([rule_ids |-> <<"2">>, spam |-> TRUE,
                            forward |-> TRUE]),
           restrict |-> Some("Suspend"),
           matchers |-> <<>>]}

RuleLists == UNION {[1..n -> RuleChoices] : n \in 0..MaxRules}

SettingsChoices ==
    {[rspamc_command |-> None], [rspamc_command |-> Some(<<"rspamc">>)]}

InitStatus ==
    /\ IdleOptimize
    /\ settings \in SettingsChoices
    /\ \E rs \in RuleLists :
          config = [w \in Workers |->
                      [domain |-> "d1", username |-> w,
                       rules |-> IF w = "w1" THEN rs ELSE <<>>]]
    /\ secrets = [d \in Domains |-> "s1"]
    /\ tail_pos = [d \in Domains |-> 0]
    /\ buffer = [d \in Domains |-> <<>>]
    /\ closed = FALSE
    /\ published = [d \in Domains |-> <<>>]
    /\ next = [w \in Workers |-> 0]
    /\ wpc = [w \in Workers |-> IF w = "w1" THEN "handle_status" ELSE "off"]
    /\ \E status \in Statuses :
          hs = [w \in Workers |-> IF w = "w1" THEN HsEntry(status) ELSE HsIdle]
    /\ processed = [w \in Workers |-> <<>>]
    /\ lagged = [w \in Workers |-> <<>>]
    /\ last = NoRequest

NextStatus == \E w \in Workers : HandleStatus(w)

SpecStatus == InitStatus /\ [][NextStatus]_vars

\* The rule engine on configs drawn from fewer rules, for properties that
\* compare every ordering of a config: rule alpha with or without a
\* forwarded report, rule beta with a spam report or one without flags, each
\* with a lower, a higher or no restriction, and rule delta.
OrderRuleChoices ==
    {r \in RuleChoices :
        \/ /\ r.name = "alpha"
           /\ r.report \in {None, Some([rule_ids |-> <<"1">>, spam |-> FALSE,
                                        forward |-> TRUE])}
           /\ r.restrict \in {None, Some("Sensitive"), Some("Suspend")}
        \/ /\ r.name = "beta"
           /\ r.report \in {Some([rule_ids |-> <<>>, spam |-> TRUE,
                                  forward |-> FALSE]),
                            Some([rule_ids |-> <<>>, spam |-> FALSE,
                                  forward |-> FALSE])}
           /\ r.restrict \in {None, Some("Suspend")}
        \/ r.name = "delta"}

InitOrder ==
    /\ IdleOptimize
    /\ settings \in SettingsChoices
    /\ \E rs \in UNION {[1..n -> OrderRuleChoices] : n \in 0..MaxRules} :
          config = [w \in Workers |->
                      [domain |-> "d1", username |-> w,
                       rules |-> IF w = "w1" THEN rs ELSE <<>>]]
    /\ secrets = [d \in Domains |-> "s1"]
    /\ tail_pos = [d \in Domains |-> 0]
    /\ buffer = [d \in Domains |-> <<>>]
    /\ closed = FALSE
    /\ published = [d \in Domains |-> <<>>]
    /\ next = [w \in Workers |-> 0]
    /\ wpc = [w \in Workers |-> IF w = "w1" THEN "handle_status" ELSE "off"]
    /\ \E status \in Statuses :
          hs = [w \in Workers |-> IF w = "w1" THEN HsEntry(status) ELSE HsIdle]
    /\ processed = [w \in Workers |-> <<>>]
    /\ lagged = [w \in Workers |-> <<>>]
    /\ last = NoRequest

SpecOrder == InitOrder /\ [][NextStatus]_vars

(***************************************************************************)
(* receive_webhook (main.rs:269-330).  The request carries the parsed       *)
(* X-Hub-Signature header, the query parameters and the body.               *)
(***************************************************************************)
\* Number of live receivers of domain d's channel: the workers of d that
\* have been spawned and have not returned.
receiver_count(d) ==
    Cardinality({w \in Workers : config[w].domain = d
                                 /\ wpc[w] \in {"recv", "handle_status"}})

\* broadcast::Sender::send on a channel with receivers: the value is
\* appended and the oldest one is overwritten when the buffer is full.
channel_send(buf, event) ==
    IF Len(buf) < EVENT_CHANNEL_SIZE
    THEN Append(buf, event)
    ELSE Append(Tail(buf), event)

\* Variant of domain_handlers that ignores the domain parameter.
domain_handlers_all(params) == DOMAIN secrets

\* The domain handlers the signature is tried against.
domain_handlers(params) ==
    IF params.domain # None
    THEN {d \in DOMAIN secrets : d = params.domain.value}
    ELSE DOMAIN secrets

matching_domain_handlers(req) ==
    {d \in domain_handlers(req.params) :
        is_valid(req.x_hub_signature, secrets[d], req.body)}

\* Variant of ambiguous that lets several matching handlers through.
ambiguous_never(matching) == FALSE

\* if matching_domain_handlers.len() > 1
ambiguous(matching) == Cardinality(matching) > 1

\* Variant of receive_webhook_status that decodes the body before it checks
\* the signature.
receive_webhook_status_decode_first(req) ==
    LET matching == {d \in (IF req.params.domain # None
                            THEN {d \in DOMAIN secrets :
                                     d = req.params.domain.value}
                            ELSE DOMAIN secrets) :
                        is_valid(req.x_hub_signature, secrets[d], req.body)}
    IN IF DecodeEvent(req.body) = Err THEN 422
       ELSE IF req.x_hub_signature.algorithm # "sha256" THEN 401
       ELSE IF Cardinality(matching) # 1 THEN 401
       ELSE IF receiver_count(CHOOSE d \in matching : TRUE) = 0 THEN 500
       ELSE 202

\* The status code receive_webhook answers with: its early returns in order,
\* then the decode of the body, then the channel send.
receive_webhook_status(req) ==
    LET matching == matching_domain_handlers(req)
    IN IF req.x_hub_signature.algorithm # "sha256" THEN 401
       ELSE IF ambiguous(matching) THEN 401
       ELSE IF matching = {} THEN 401
       ELSE IF DecodeEvent(req.body) = Err THEN 422
       ELSE IF receiver_count(CHOOSE d \in matching : TRUE) = 0 THEN 500
       ELSE 202

\* Variant of send_ready for a channel that makes the sender wait while a
\* live receiver still has a full buffer of unread events.
send_ready_when_room(d) ==
    \A w \in Workers :
        (config[w].domain = d /\ wpc[w] \in {"recv", "handle_status"}) =>
            tail_pos[d] - next[w] < EVENT_CHANNEL_SIZE

\* event_sender.send(event) is a plain call, not an await: it returns at
\* once whatever the receivers have read.
send_ready(d) == TRUE

ReceiveWebhook(req) ==
    /\ ~closed
    /\ LET status == receive_webhook_status(req)
           domain == CHOOSE d \in matching_domain_handlers(req) : TRUE
           event == DecodeEvent(req.body).value
       IN IF status = 202
          THEN /\ tail_pos[domain] < MaxSend
               /\ send_ready(domain)
               /\ buffer' = [buffer EXCEPT ![domain] = channel_send(@, event)]
               /\ tail_pos' = [tail_pos EXCEPT ![domain] = @ + 1]
               /\ published' = [published EXCEPT ![domain] = Append(@, event)]
               /\ UNCHANGED closed
               /\ last' = [status |-> status, req |-> req,
                           sent |-> Some([domain |-> domain, event |-> event,
                                          pos |-> tail_pos[domain]])]
          ELSE /\ last' = [status |-> status, req |-> req, sent |-> None]
               /\ UNCHANGED chanVars
    /\ UNCHANGED <<optVars, cfgVars, workerVars>>

(***************************************************************************)
(* handle_events (main.rs:333-362): the worker loop of one domain user.     *)
(***************************************************************************)
\* Position of the oldest event the channel of domain d still retains.
oldest_pos(d) == tail_pos[d] - Len(buffer[d])

\* Variant of event_at in which the receiver is handed the newest event.
event_at_newest(d, pos) == buffer[d][Len(buffer[d])]

\* The retained event at position pos.
event_at(d, pos) == buffer[d][pos - oldest_pos(d) + 1]

\* Variant of recv_error_arm in which no recv() error ends the worker.
recv_error_arm_loop(e) == "recv"

\* Variant of recv_error_arm in which every recv() error ends the worker.
recv_error_arm_fatal(e) == "done"

\* The arms of handle_events for an Err of recv(): Lagged is logged and the
\* loop goes on, Closed returns Ok(()).
recv_error_arm(e) == IF e = "Lagged" THEN "recv" ELSE "done"

\* recv() returns Err(RecvError::Lagged(skipped)): the receiver has been
\* overtaken and jumps to the oldest retained event.
RecvLagged(w) ==
    /\ wpc[w] = "recv"
    /\ LET d == config[w].domain
       IN /\ next[w] < oldest_pos(d)
          /\ lagged' = [lagged EXCEPT ![w] = Append(@, oldest_pos(d) - next[w])]
          /\ next' = [next EXCEPT ![w] = oldest_pos(d)]
    /\ wpc' = [wpc EXCEPT ![w] = recv_error_arm("Lagged")]
    /\ UNCHANGED <<hs, processed>>
    /\ UNCHANGED <<optVars, cfgVars, chanVars, last>>

\* recv() returns Ok(event): status events enter handle_status, every other
\* event is logged as unimplemented.
RecvEvent(w) ==
    /\ wpc[w] = "recv"
    /\ LET d == config[w].domain
       IN /\ next[w] >= oldest_pos(d)
          /\ next[w] < tail_pos[d]
          /\ LET event == event_at(d, next[w])
             IN IF event.kind \in {"status.created", "status.updated"}
                THEN /\ wpc' = [wpc EXCEPT ![w] = "handle_status"]
                     /\ hs' = [hs EXCEPT ![w] = HsEntry(event.status)]
                     /\ processed' = [processed EXCEPT ![w] =
                            Append(@, [pos |-> next[w], event |-> event,
                                       result |-> "running"])]
                ELSE /\ processed' = [processed EXCEPT ![w] =
                            Append(@, [pos |-> next[w], event |-> event,
                                       result |-> "unimplemented"])]
                     /\ UNCHANGED <<wpc, hs>>
          /\ next' = [next EXCEPT ![w] = @ + 1]
    /\ UNCHANGED lagged
    /\ UNCHANGED <<optVars, cfgVars, chanVars, last>>

\* Variant of handle_events_after in which an Err ends the worker.
handle_events_after_bail(result) == IF result = "err" THEN "done" ELSE "recv"

\* if let Err(e) = handle_status(..).await { error!(..) }: the result is
\* logged and the loop goes on either way.
handle_events_after(result) == "recv"

HandleStatusReturn(w) ==
    /\ wpc[w] = "handle_status"
    /\ hs[w].pc \in {"ok", "err"}
    /\ wpc' = [wpc EXCEPT ![w] = handle_events_after(hs[w].pc)]
    /\ processed' = [processed EXCEPT
                        ![w][Len(processed[w])].result = hs[w].pc]
    /\ hs' = [hs EXCEPT ![w] = HsIdle]
    /\ UNCHANGED <<next, lagged>>
    /\ UNCHANGED <<optVars, cfgVars, chanVars, last>>

\* recv() returns Err(RecvError::Closed): return Ok(()).
RecvClosed(w) ==
    /\ wpc[w] = "recv"
    /\ next[w] = tail_pos[config[w].domain]
    /\ closed
    /\ wpc' = [wpc EXCEPT ![w] = recv_error_arm("Closed")]
    /\ UNCHANGED <<next, hs, processed, lagged>>
    /\ UNCHANGED <<optVars, cfgVars, chanVars, last>>

\* The server stops and the domain handler map, with every sender, is
\* dropped.
Shutdown ==
    /\ ~closed
    /\ closed' = TRUE
    /\ UNCHANGED <<tail_pos, buffer, published>>
    /\ UNCHANGED <<optVars, cfgVars, workerVars, last>>

(***************************************************************************)
(* Specifications.                                                          *)
(***************************************************************************)
Request(algorithm, key, domain, body) ==
    [x_hub_signature |-> [algorithm |-> algorithm,
                          signature |-> Hmac(algorithm, key, body)],
     params |-> [domain |-> domain],
     body |-> body]

\* The intake on its own: any secrets, any signature algorithm, signatures
\* made with a configured secret or with a key no domain has, bodies that
\* decode and bodies that do not, with and without the domain parameter.
IntakeBodies ==
    {NotJson,
     Envelope("status.created", StatusFoo),
     Envelope("status.created", AccountA)}

IntakeRequests ==
    {Request(a, k, dp, b) :
        a \in XHubSignatureAlgorithm,
        k \in Secrets \cup {"forged"},
        dp \in {None} \cup {Some(d) : d \in Domains \cup {"dx"}},
        b \in IntakeBodies}

InitIntake ==
    /\ IdleOptimize
    /\ settings = [rspamc_command |-> None]
    /\ \E d \in Domains :
          config = [w \in Workers |->
                      ServeConfig(w, IF w = "w1" THEN "d1" ELSE d)]
    /\ secrets \in [Domains -> Secrets]
    /\ tail_pos = [d \in Domains |-> 0]
    /\ buffer = [d \in Domains |-> <<>>]
    /\ closed = FALSE
    /\ published = [d \in Domains |-> <<>>]
    /\ next = [w \in Workers |-> 0]
    /\ wpc = [w \in Workers |-> "recv"]
    /\ hs = [w \in Workers |-> HsIdle]
    /\ processed = [w \in Workers |-> <<>>]
    /\ lagged = [w \in Workers |-> <<>>]
    /\ last = NoRequest

NextIntake == \E req \in IntakeRequests : ReceiveWebhook(req)

SpecIntake == InitIntake /\ [][NextIntake]_vars

\* The server: domain d1 has two workers and receives correctly signed
\* events, the workers receive and handle them without a spam filter, and
\* the server may shut down.
ServeSecrets == [d \in Domains |-> IF d = "d1" THEN "s1" ELSE "s2"]

ServeRequests ==
    {Request("sha256", ServeSecrets["d1"], None, b) :
        b \in {Envelope("status.created", StatusFoo),
               Envelope("account.created", AccountA)}}

Init ==
    /\ IdleOptimize
    /\ settings = [rspamc_command |-> None]
    /\ config = [w \in Workers |-> ServeConfig(w, "d1")]
    /\ secrets = ServeSecrets
    /\ tail_pos = [d \in Domains |-> 0]
    /\ buffer = [d \in Domains |-> <<>>]
    /\ closed = FALSE
    /\ published = [d \in Domains |-> <<>>]
    /\ next = [w \in Workers |-> 0]
    /\ wpc = [w \in Workers |-> "recv"]
    /\ hs = [w \in Workers |-> HsIdle]
    /\ processed = [w \in Workers |-> <<>>]
    /\ lagged = [w \in Workers |-> <<>>]
    /\ last = NoRequest

HandleEvents(w) ==
    \/ RecvLagged(w)
    \/ RecvEvent(w)
    \/ HandleStatus(w)
    \/ HandleStatusReturn(w)
    \/ RecvClosed(w)

Next ==
    \/ \E req \in ServeRequests : ReceiveWebhook(req)
    \/ \E w \in Workers : HandleEvents(w)
    \/ Shutdown

Spec == Init /\ [][Next]_vars

\* One worker per domain: d1 receives events of every kind, d2 receives
\* none, the spam filter is configured, and the server may shut down.
ReportA ==
    [type |-> "Report", action_taken |-> TRUE, category |-> "Spam",
     target_account |-> [silenced |-> TRUE, suspended |-> FALSE,
                         disabled |-> FALSE],
     statuses |-> <<StatusFoo>>]

DispatchRequests ==
    {Request("sha256", ServeSecrets["d1"], None, b) :
        b \in {Envelope("status.updated", StatusFoo),
               Envelope("report.created", ReportA),
               Envelope("account.updated", AccountA),
               Envelope("poll.expired", AccountA)}}

InitDispatch ==
    /\ IdleOptimize
    /\ settings = [rspamc_command |-> Some(<<"rspamc">>)]
    /\ config = [w \in Workers |->
                   ServeConfig(w, IF w = "w1" THEN "d1" ELSE "d2")]
    /\ secrets = ServeSecrets
    /\ tail_pos = [d \in Domains |-> 0]
    /\ buffer = [d \in Domains |-> <<>>]
    /\ closed = FALSE
    /\ published = [d \in Domains |-> <<>>]
    /\ next = [w \in Workers |-> 0]
    /\ wpc = [w \in Workers |-> "recv"]
    /\ hs = [w \in Workers |-> HsIdle]
    /\ processed = [w \in Workers |-> <<>>]
    /\ lagged = [w \in Workers |-> <<>>]
    /\ last = NoRequest

NextDispatch ==
    \/ \E req \in DispatchRequests : ReceiveWebhook(req)
    \/ \E w \in Workers : HandleEvents(w)
    \/ Shutdown

SpecDispatch == InitDispatch /\ [][NextDispatch]_vars

\* Each worker is a spawned task of its own: the runtime keeps polling it,
\* and every await of recv() or of an outbound call eventually returns.
SpecLive == SpecDispatch /\ \A w \in Workers : WF_vars(HandleEvents(w))

\* The same server receiving posts that differ: one that rule alpha fires
\* on, one that no pattern matches, and an event that is not a post.
EventRequests ==
    {Request("sha256", ServeSecrets["d1"], None, b) :
        b \in {Envelope("status.created", StatusFoo),
               Envelope("status.updated", StatusNone),
               Envelope("account.created", AccountA)}}

NextEvents ==
    \/ \E req \in EventRequests : ReceiveWebhook(req)
    \/ \E w \in Workers : HandleEvents(w)
    \/ Shutdown

SpecEvents == InitDispatch /\ [][NextEvents]_vars

(***************************************************************************)
(* handle_report (event/report.rs:9-36) with the learn calls of the spam     *)
(* filter adapter (interop/rspamd.rs), run by worker w.  Here settings is   *)
(* [rspamd], an optional [rspamc_command].                                  *)
(***************************************************************************)
\* Largest number of posts attached to a report.
MaxPosts == 2

\* The locals of handle_report at entry.
HrEntry(report) ==
    [pc |-> "report", report |-> report, idx |-> 1, calls |-> <<>>]

\* report.category.is_spam()
is_spam(c) == c = "Spam"

\* Variant of learn_as_spam that overlooks disabled accounts.
learn_as_spam_not_disabled(target_account) ==
    target_account.silenced \/ target_account.suspended

\* report.target_account.silenced || .suspended || .disabled
learn_as_spam(target_account) ==
    \/ target_account.silenced
    \/ target_account.suspended
    \/ target_account.disabled

\* The results rspamc_command can give: it bails before running anything
\* when the command is missing or an empty list, and otherwise the process
\* succeeds or fails.
rspamc_results(rspamd) ==
    IF rspamd.rspamc_command = None \/ rspamd.rspamc_command.value = <<>>
    THEN {Err}
    ELSE {Ok("done"), Err}

\* The early returns of handle_report.
ReportGuards(w) ==
    /\ wpc[w] = "handle_report"
    /\ hs[w].pc = "report"
    /\ hs' = [hs EXCEPT ![w].pc =
                 IF ~hs[w].report.action_taken THEN "ok"
                 ELSE IF ~is_spam(hs[w].report.category) THEN "ok"
                 ELSE IF settings.rspamd = None THEN "ok"
                 ELSE "learn"]
    /\ UNCHANGED <<next, wpc, processed, lagged>>
    /\ UNCHANGED <<optVars, cfgVars, chanVars, last>>

\* One iteration of `for status in &report.statuses`, with its
\* rspamd_learn_spam(..).await? or rspamd_learn_ham(..).await?, or Ok(())
\* after the last one.
RspamdLearn(w) ==
    /\ wpc[w] = "handle_report"
    /\ hs[w].pc = "learn"
    /\ LET h == hs[w]
           op == IF learn_as_spam(h.report.target_account)
                 THEN "learn_spam" ELSE "learn_ham"
       IN IF h.idx > Len(h.report.statuses)
          THEN hs' = [hs EXCEPT ![w].pc = "ok"]
          ELSE \E result \in rspamc_results(settings.rspamd.value) :
                  hs' = [hs EXCEPT
                           ![w].pc = IF result = Err THEN "err" ELSE "learn",
                           ![w].idx = h.idx + 1,
                           ![w].calls = Append(h.calls,
                               [request |-> [op |-> op,
                                             status |-> h.report.statuses[h.idx]],
                                result |-> result])]
    /\ UNCHANGED <<next, wpc, processed, lagged>>
    /\ UNCHANGED <<optVars, cfgVars, chanVars, last>>

HandleReport(w) == ReportGuards(w) \/ RspamdLearn(w)

\* Report ingest on its own: worker w1 runs handle_report once, for any
\* report with at most MaxPosts posts and any spam filter setting.
Reports ==
    {[type |-> "Report", action_taken |-> a, category |-> c,
      target_account |-> [silenced |-> si, suspended |-> su, disabled |-> di],
      statuses |-> ps] :
        a \in BOOLEAN, c \in {"Spam", "Violation", "Other"},
        si \in BOOLEAN, su \in BOOLEAN, di \in BOOLEAN,
        ps \in UNION {[1..n -> Statuses] : n \in 0..MaxPosts}}

RspamdChoices ==
    {None, Some([rspamc_command |-> None]),
     Some([rspamc_command |-> Some(<<>>)]),
     Some([rspamc_command |-> Some(<<"rspamc">>)])}

InitReport ==
    /\ IdleOptimize
    /\ \E r \in RspamdChoices : settings = [rspamd |-> r]
    /\ config = [w \in Workers |-> [domain |-> "d1", username |-> w,
                                     rules |-> <<>>]]
    /\ secrets = [d \in Domains |-> "s1"]
    /\ tail_pos = [d \in Domains |-> 0]
    /\ buffer = [d \in Domains |-> <<>>]
    /\ closed = FALSE
    /\ published = [d \in Domains |-> <<>>]
    /\ next = [w \in Workers |-> 0]
    /\ wpc = [w \in Workers |-> IF w = "w1" THEN "handle_report" ELSE "off"]
    /\ \E report \in Reports :
          hs = [w \in Workers |-> IF w = "w1" THEN HrEntry(report) ELSE HsIdle]
    /\ processed = [w \in Workers |-> <<>>]
    /\ lagged = [w \in Workers |-> <<>>]
    /\ last = NoRequest

NextReport == \E w \in Workers : HandleReport(w)

SpecReport == InitReport /\ [][NextReport]_vars

(***************************************************************************)
(* Claims.                                                                  *)
(***************************************************************************)

\* C1: truth preservation.  For every pattern tree on which compile
\* succeeds and every input, the compiled matcher gives the same result as
\* the direct interpretation of the tree.
C1_TruthPreservation ==
    opt_pc = "compiled" =>
        \A s \in Inputs : is_match(matcher, s) = eval_naive(root, s)

\* C2: optimizer termination.  The number of passes never exceeds the node
\* count of the input, every pass that makes progress leaves a tree with
\* strictly fewer nodes than it started from, and the tree never has more
\* nodes than the input.
C2_OptimizerTermination ==
    opt_pc # "idle" =>
        /\ passes <= count(root)
        /\ (opt_pc = "while" /\ progress /\ passes > 0) =>
               count(current) < num_nodes
        /\ count(current) <= count(root)

\* A run of at least three passes that returned a smaller tree.
C2_Witness ==
    /\ opt_pc = "ok"
    /\ passes >= 3
    /\ count(current) < count(root)

(* ---- rule engine ---- *)

\* The rules of worker w's config that fire on the input of its running
\* handle_status.
FiredRules(w) ==
    {i \in 1..Len(config[w].rules) :
        rule_fires(config[w].rules[i], hs[w].input)}

\* handle_status of worker w has walked all rules and returned.
Returned(w) ==
    /\ hs[w].pc \in {"ok", "err"}
    /\ hs[w].rule_idx > Len(config[w].rules)

CallsOf(w, op) == SelectSeq(hs[w].calls, LAMBDA c : c.request.op = op)

ClaimRank == [Sensitive |-> 1, Disable |-> 2, Silence |-> 3, Suspend |-> 4]

\* C4: restriction monotonicity.  Once all rules are walked, the account
\* action carries the maximum restrict of the rules that fired and have one,
\* and there is no account action when no such rule exists.
C4_RestrictionMax ==
    \A w \in Workers :
        Returned(w) =>
            LET due == {config[w].rules[i].restrict.value :
                           i \in {j \in FiredRules(w) :
                                     config[w].rules[j].restrict # None}}
                acts == CallsOf(w, "account_action")
            IN IF due = {}
               THEN acts = <<>>
               ELSE /\ Len(acts) = 1
                    /\ acts[1].request.action \in due
                    /\ \A r \in due :
                          ClaimRank[r] <= ClaimRank[acts[1].request.action]

\* Two rules fired, the first with the higher restriction, and the action
\* carried the first one's.
C4_Witness ==
    /\ Returned("w1")
    /\ Len(config["w1"].rules) = 2
    /\ FiredRules("w1") = {1, 2}
    /\ config["w1"].rules[1].restrict = Some("Suspend")
    /\ config["w1"].rules[2].restrict = Some("Sensitive")
    /\ CallsOf("w1", "account_action") # <<>>
    /\ CallsOf("w1", "account_action")[1].request.action = "Suspend"

\* The rule ids and the spam flag accumulated over the fired rules that have
\* a report spec.
ReportingRules(w) ==
    {i \in FiredRules(w) : config[w].rules[i].report # None}

AccumulatedIds(w) ==
    UNION {{config[w].rules[i].report.value.rule_ids[k] :
               k \in 1..Len(config[w].rules[i].report.value.rule_ids)} :
           i \in ReportingRules(w)}

AccumulatedSpam(w) ==
    \E i \in ReportingRules(w) : config[w].rules[i].report.value.spam

\* C5: category precedence.  A submitted report is a Violation with the
\* accumulated rule ids whenever there are any, whatever the spam flag;
\* otherwise Spam when the spam flag is set; otherwise Other.
C5_CategoryPrecedence ==
    \A w \in Workers :
        LET reports == CallsOf(w, "add_report")
        IN \A k \in 1..Len(reports) :
              IF AccumulatedIds(w) # {}
              THEN /\ reports[k].request.category = "Violation"
                   /\ reports[k].request.rule_ids = AccumulatedIds(w)
              ELSE IF AccumulatedSpam(w)
              THEN reports[k].request.category = "Spam"
              ELSE reports[k].request.category = "Other"

\* A Violation report was submitted although the spam flag was accumulated.
C5_Witness ==
    /\ CallsOf("w1", "add_report") # <<>>
    /\ CallsOf("w1", "add_report")[1].request.category = "Violation"
    /\ AccumulatedSpam("w1")

\* C8: report failure does not block restriction.  When a report and a
\* restriction are due, the report is attempted first, the account action
\* follows, it carries the returned report id exactly when the submission
\* succeeded, and handle_status fails only if the account action failed.
C8_ReportThenRestrict ==
    \A w \in Workers :
        (/\ Returned(w)
         /\ ReportingRules(w) # {}
         /\ \E i \in FiredRules(w) : config[w].rules[i].restrict # None) =>
            LET calls == hs[w].calls
            IN /\ Len(calls) = 2
               /\ calls[1].request.op = "add_report"
               /\ calls[2].request.op = "account_action"
               /\ calls[2].request.report_id =
                     (IF calls[1].result = Err THEN None
                      ELSE Some(calls[1].result.value))
               /\ (hs[w].pc = "err") <=> (calls[2].result = Err)

\* The submission failed, the action went out without a report id and
\* handle_status returned Ok.
C8_Witness ==
    /\ Returned("w1")
    /\ hs["w1"].pc = "ok"
    /\ Len(hs["w1"].calls) = 2
    /\ hs["w1"].calls[1].result = Err
    /\ hs["w1"].calls[2].request.report_id = None

\* The submission succeeded and the action carried the returned id.
C8_WitnessId ==
    /\ Returned("w1")
    /\ Len(hs["w1"].calls) = 2
    /\ hs["w1"].calls[1].result = Ok("rep2")
    /\ hs["w1"].calls[2].request.report_id = Some("rep2")

(* ---- webhook intake ---- *)

\* Domain d's secret validates the request's signature over its body: the
\* header carries the HMAC-SHA256 of the body under the secret.
Validates(d, req) ==
    /\ req.x_hub_signature.algorithm = "sha256"
    /\ req.x_hub_signature.signature = Hmac("sha256", secrets[d], req.body)

\* The candidate handlers of a request: the one named by the domain
\* parameter, or every configured domain when it is absent.
Candidates(req) ==
    {d \in Domains : req.params.domain = None \/ req.params.domain = Some(d)}

ValidCandidates(req) == {d \in Candidates(req) : Validates(d, req)}

ChannelsUnchanged == tail_pos' = tail_pos /\ buffer' = buffer

\* C3: signature uniqueness.  A request changes a channel only when exactly
\* one candidate validates; with zero or several the answer is 401 and no
\* channel changes.
C3_SignatureUniqueness ==
    [][last' # last =>
          LET n == Cardinality(ValidCandidates(last'.req))
          IN /\ ~ChannelsUnchanged => n = 1
             /\ n # 1 => (last'.status = 401 /\ ChannelsUnchanged)]_vars

\* Two domains share the secret, the request names no domain and validates
\* under both: 401.
C3_Witness ==
    /\ last.status = 401
    /\ last.req.params.domain = None
    /\ Cardinality(ValidCandidates(last.req)) = 2

\* The status the response order of the claim prescribes.
C6_Expected(req) ==
    IF req.x_hub_signature.algorithm # "sha256" THEN 401
    ELSE IF Cardinality(ValidCandidates(req)) # 1 THEN 401
    ELSE IF DecodeEvent(req.body) = Err THEN 422
    ELSE IF receiver_count(CHOOSE d \in ValidCandidates(req) : TRUE) = 0
    THEN 500
    ELSE 202

\* C6: response order.  401 before 422 before 500 before 202; the event is
\* appended once, to the validating domain's channel, in the 202 case and no
\* channel changes otherwise.
C6_ResponseOrder ==
    [][last' # last =>
          LET req == last'.req
              expected == C6_Expected(req)
          IN /\ last'.status = expected
             /\ IF expected = 202
                THEN LET d == CHOOSE d \in ValidCandidates(req) : TRUE
                     IN /\ tail_pos'[d] = tail_pos[d] + 1
                        /\ buffer'[d][Len(buffer'[d])] =
                              DecodeEvent(req.body).value
                        /\ \A o \in Domains \ {d} :
                              /\ tail_pos'[o] = tail_pos[o]
                              /\ buffer'[o] = buffer[o]
                ELSE ChannelsUnchanged]_vars

\* A sha1 signature that is a valid HMAC under a configured secret: 401.
C6_Witness ==
    /\ last.status = 401
    /\ last.req.x_hub_signature.algorithm = "sha1"
    /\ \E d \in Domains :
          last.req.x_hub_signature.signature =
              Hmac("sha1", secrets[d], last.req.body)

\* A body that does not decode under a bad signature: 401.
C6_WitnessUndecodable ==
    /\ last.status = 401
    /\ last.req.x_hub_signature.algorithm = "sha256"
    /\ DecodeEvent(last.req.body) = Err
    /\ ValidCandidates(last.req) = {}

\* C7: domain query parameter.  With domain=d the request passes the
\* signature check iff d is configured and d's secret validates, whatever
\* the other secrets do; without it, iff exactly one configured domain
\* validates.
C7_DomainParameter ==
    last.status # 0 =>
        LET req == last.req
            accepted == last.status # 401
        IN IF req.params.domain # None
           THEN accepted <=> (/\ req.params.domain.value \in Domains
                              /\ Validates(req.params.domain.value, req))
           ELSE accepted <=>
                   Cardinality({d \in Domains : Validates(d, req)}) = 1

\* Both domains have the secret that signed the request, domain=d1 is given
\* and the event is accepted.
C7_Witness ==
    /\ last.status = 202
    /\ last.req.params.domain = Some("d1")
    /\ \A d \in Domains : Validates(d, last.req)

\* An unconfigured domain is named: 401 although a configured secret signed.
C7_WitnessUnknown ==
    /\ last.status = 401
    /\ last.req.params.domain = Some("dx")
    /\ \E d \in Domains : Validates(d, last.req)

(* ---- worker ---- *)

\* C9: the worker survives event failures.  A handle_status that returned
\* an error puts the worker back at recv(), and a worker terminates only
\* from recv() on a closed channel.
C9_WorkerSurvives ==
    [][\A w \in Workers :
          /\ (/\ wpc[w] = "handle_status"
              /\ hs[w].pc = "err"
              /\ wpc'[w] # "handle_status") => wpc'[w] = "recv"
          /\ (wpc[w] # "done" /\ wpc'[w] = "done") =>
                (closed /\ wpc[w] = "recv")]_vars

\* A worker whose first event failed has handled a second one.
C9_Witness ==
    \E w \in Workers :
        /\ Len(processed[w]) >= 2
        /\ processed[w][1].result = "err"
        /\ processed[w][2].result = "ok"

\* C10: channel lag.  A worker more than the capacity behind gets, as its
\* next result, a lag notification whose count is the number of events it
\* lost, which are the oldest unread ones; it stays in the loop at the oldest
\* retained event; every position before its cursor was either processed
\* once or counted as skipped.
C10_ChannelLag ==
    /\ [](\A w \in Workers :
             /\ \A i, j \in 1..Len(processed[w]) :
                   i < j => processed[w][i].pos < processed[w][j].pos
             /\ Len(processed[w]) + SumSeq(lagged[w]) = next[w])
    /\ [][\A w \in Workers :
             LET d == config[w].domain
                 behind == tail_pos[d] - next[w] > EVENT_CHANNEL_SIZE
             IN /\ (/\ behind
                    /\ wpc[w] = "recv"
                    /\ (next'[w] # next[w] \/ wpc'[w] # wpc[w])) =>
                      lagged'[w] # lagged[w]
                /\ lagged'[w] # lagged[w] =>
                      /\ behind
                      /\ lagged'[w] = Append(lagged[w],
                            tail_pos[d] - EVENT_CHANNEL_SIZE - next[w])
                      /\ next'[w] = tail_pos[d] - EVENT_CHANNEL_SIZE
                      /\ processed'[w] = processed[w]
                      /\ wpc'[w] = "recv"]_vars

\* A worker was notified of a lag and then handled the event at the position
\* the lag left it at.
C10_Witness ==
    \E w \in Workers :
        /\ lagged[w] # <<>>
        /\ processed[w] # <<>>
        /\ processed[w][1].pos = lagged[w][1]

\* C11: publishers never block.  A correctly signed, decodable request to a
\* domain with a live worker can always be served, however far behind the
\* workers are; it is answered 202 and its event becomes the newest of the
\* channel, also when a worker has a full buffer of unread events.
C11_PublishersNeverBlock ==
    /\ [](\A req \in ServeRequests :
             (~closed /\ tail_pos["d1"] < MaxSend) =>
                 ENABLED ReceiveWebhook(req))
    /\ [][(last' # last /\ receiver_count("d1") > 0) =>
             /\ last'.status = 202
             /\ tail_pos'["d1"] = tail_pos["d1"] + 1
             /\ buffer'["d1"][Len(buffer'["d1"])] =
                   DecodeEvent(last'.req.body).value
             /\ workerVars' = workerVars]_vars

\* An event was published with 202 while a live worker had a full buffer of
\* unread events.
C11_Witness ==
    /\ last.status = 202
    /\ last.sent.value.pos = tail_pos["d1"] - 1
    /\ \E w \in Workers :
          /\ wpc[w] \in {"recv", "handle_status"}
          /\ tail_pos["d1"] - next[w] > EVENT_CHANNEL_SIZE

\* C12: ordering.  The events a worker has received are, in order, events
\* published to its domain's channel at increasing positions, and a worker
\* receives an event only when the handling of the previous one, with its
\* outbound calls, has returned.
C12_Ordering ==
    /\ [](\A w \in Workers :
             /\ \A i \in 1..Len(processed[w]) :
                   /\ processed[w][i].pos < Len(published[config[w].domain])
                   /\ processed[w][i].event =
                         published[config[w].domain][processed[w][i].pos + 1]
                   /\ \A j \in 1..(i - 1) :
                         processed[w][j].pos < processed[w][i].pos
                   /\ processed[w][i].result = "running" =>
                         (i = Len(processed[w]) /\ wpc[w] = "handle_status")
             /\ hs[w].calls # <<>> => wpc[w] = "handle_status")
    /\ [][\A w \in Workers :
             Len(processed'[w]) > Len(processed[w]) =>
                 /\ wpc[w] = "recv"
                 /\ hs[w] = HsIdle
                 /\ \A i \in 1..Len(processed[w]) :
                       processed[w][i].result # "running"]_vars

\* A worker received two different events in publish order, the second
\* after the first one's handle_status, with its account action, returned.
C12_Witness ==
    \E w \in Workers :
        /\ Len(processed[w]) >= 2
        /\ processed[w][1].event # processed[w][2].event
        /\ processed[w][1].result = "ok"
        /\ processed[w][1].pos < processed[w][2].pos

C14_EventKinds ==
    \A w \in Workers :
        /\ \A i \in 1..Len(processed[w]) :
              LET kind == processed[w][i].event.kind
                  result == processed[w][i].result
              IN CASE kind \in {"status.created", "status.updated"} ->
                          result \in {"running", "ok", "err"}
                   [] kind \in {"report.created", "report.updated"} ->
                          result \in {"report running", "report ok",
                                      "report err"}
                   [] OTHER -> result = "unimplemented"
        /\ hs[w].calls # <<>> =>
              /\ processed[w] # <<>>
              /\ processed[w][Len(processed[w])].event.kind
                    \in {"status.created", "status.updated"}

(* ---- report ingest ---- *)

\* The report of worker w's handle_report calls for learning: it is closed,
\* categorized as spam, and a spam filter is configured.
LearnDue(w) ==
    /\ hs[w].report.action_taken
    /\ hs[w].report.category = "Spam"
    /\ settings.rspamd # None

\* The learn operation the target account's status selects.
LearnOp(w) ==
    IF \/ hs[w].report.target_account.silenced
       \/ hs[w].report.target_account.suspended
       \/ hs[w].report.target_account.disabled
    THEN "learn_spam" ELSE "learn_ham"

AnyMatcherMatches(w) ==
    {i \in 1..Len(config[w].rules) :
        \E k \in 1..Len(config[w].rules[i].matchers) :
            rule_is_match(config[w].rules[i].matchers[k], hs[w].input)}

\* The names accumulated so far in worker w's report builder.
BuilderNames(w) ==
    IF hs[w].report_builder = None THEN {}
    ELSE hs[w].report_builder.value.rule_names

\* C16: spam-filter leaf.  input.rspamd is set only with a configured
\* filter and after the scan; a reporting rule whose only pattern is
\* Rspamd(action) has matched, once walked, iff input.rspamd is set and
\* equals action, so without a configured filter it never matches.
C16_RspamdLeaf ==
    \A w \in Workers :
        hs[w].pc \notin {"idle", "report", "learn"} =>
            /\ hs[w].input.rspamd # None =>
                  (settings.rspamc_command # None /\ hs[w].pc # "scan")
            /\ \A i \in 1..Len(config[w].rules) :
                  LET rule == config[w].rules[i]
                  IN (/\ i < hs[w].rule_idx
                      /\ Len(rule.matchers) = 1
                      /\ rule.matchers[1].kind = "Rspamd"
                      /\ rule.report # None
                      /\ \A j \in 1..Len(config[w].rules) :
                            config[w].rules[j].name = rule.name =>
                                config[w].rules[j] = rule) =>
                         /\ rule.name \in BuilderNames(w) <=>
                               hs[w].input.rspamd = Some(rule.matchers[1].action)
                         /\ settings.rspamc_command = None =>
                               rule.name \notin BuilderNames(w)

\* The filter answered "reject" and the rule whose only pattern is
\* Rspamd("reject") matched a post that no text pattern matches.
C16_Witness ==
    /\ hs["w1"].pc = "ok"
    /\ hs["w1"].input.rspamd = Some("reject")
    /\ hs["w1"].input.post = {}
    /\ "delta" \in BuilderNames("w1")

\* C17: spam-filter failure aborts the event.  With a filter configured,
\* a handle_status that is past the scan without a scan result has returned
\* an error with no rule walked, no report built, no restriction chosen and
\* no outbound call made.
C17_ScanFailureAborts ==
    \A w \in Workers :
        (/\ hs[w].pc \notin {"idle", "scan", "report", "learn"}
         /\ settings.rspamc_command # None
         /\ hs[w].input.rspamd = None) =>
            /\ hs[w].pc = "err"
            /\ hs[w].rule_idx = 1
            /\ hs[w].report_builder = None
            /\ hs[w].highest_restrict = None
            /\ hs[w].calls = <<>>

\* The scan failed for a post on which a rule with a report and a
\* restriction would have fired.
C17_Witness ==
    /\ hs["w1"].pc = "err"
    /\ hs["w1"].calls = <<>>
    /\ settings.rspamc_command # None
    /\ \E i \in AnyMatcherMatches("w1") :
          /\ config["w1"].rules[i].report # None
          /\ config["w1"].rules[i].restrict # None

\* C18: report accumulation.  Once the rules are walked the builder holds
\* the names, the union of the rule ids and the OR of the spam and forward
\* flags of exactly the rules that have a matching matcher and a report
\* spec; a report is submitted iff there is such a rule; at most one report
\* and one account action go out per event.
C18_ReportAccumulation ==
    \A w \in Workers :
        hs[w].pc \in {"rules", "restrict", "ok", "err"} =>
            LET rs == config[w].rules
                reporting == {i \in AnyMatcherMatches(w) : rs[i].report # None}
                reports == CallsOf(w, "add_report")
                walked == hs[w].rule_idx > Len(rs)
            IN /\ Len(reports) <= 1
               /\ Len(CallsOf(w, "account_action")) <= 1
               /\ walked =>
                     IF reporting = {}
                     THEN hs[w].report_builder = None /\ reports = <<>>
                     ELSE /\ hs[w].report_builder # None
                          /\ hs[w].report_builder.value =
                                [rule_names |-> {rs[i].name : i \in reporting},
                                 rule_ids |->
                                     UNION {{rs[i].report.value.rule_ids[k] :
                                               k \in 1..Len(rs[i].report.value
                                                                .rule_ids)} :
                                            i \in reporting},
                                 spam |-> \E i \in reporting :
                                             rs[i].report.value.spam,
                                 forward |-> \E i \in reporting :
                                                rs[i].report.value.forward]
                          /\ hs[w].pc \in {"restrict", "ok"} =>
                                Len(reports) = 1
               /\ (hs[w].pc = "rules" /\ ~walked) => hs[w].calls = <<>>

\* Two rules with different report specs fired, a rule without patterns did
\* not, and one report with both names went out.
C18_Witness ==
    /\ hs["w1"].pc = "ok"
    /\ Len(config["w1"].rules) = 2
    /\ AnyMatcherMatches("w1") = {1, 2}
    /\ config["w1"].rules[1].report # None
    /\ config["w1"].rules[2].report # None
    /\ config["w1"].rules[1].report # config["w1"].rules[2].report
    /\ Len(CallsOf("w1", "add_report")) = 1
    /\ Len(CallsOf("w1", "add_report")[1].request.comment) = 2

(* ---- leaf compiler and optimizer rules ---- *)

\* The pattern handed to compile is a group whose children are all leaves.
GroupOfLeaves(node) ==
    /\ IsGroup(node)
    /\ \A i \in 1..Len(node.children) : node.children[i].type = "Leaf"

LeafRegexes(node) == [i \in 1..Len(node.children) |-> node.children[i].leaf]

\* C19 as stated: an Any of n regex leaves compiles to one AnyRegexes node
\* with the n regexes that accepts iff at least one matches, and an All of n
\* regex leaves to one AllRegexes node that accepts iff all n match.
C19_RegexSetFusionAnyN ==
    (GroupOfLeaves(root) /\ root.children # <<>> /\ opt_pc = "compiled") =>
        /\ matcher = [kind |-> IF root.type = "Any" THEN "AnyRegexes"
                                                    ELSE "AllRegexes",
                       regexes |-> LeafRegexes(root)]
        /\ \A s \in Inputs :
              is_match(matcher, s) <=>
                  IF root.type = "Any"
                  THEN \E i \in 1..Len(root.children) :
                          root.children[i].leaf \in s
                  ELSE \A i \in 1..Len(root.children) :
                          root.children[i].leaf \in s

\* C19, amended: an Any of n >= 1 regex leaves compiles to one AnyRegexes
\* node with the n regexes that accepts iff at least one matches; an All of
\* n >= 2 regex leaves compiles to one AllRegexes node with the n regexes
\* that accepts iff all n match; an All of one leaf compiles to an
\* AnyRegexes node with that regex; a group without children does not
\* compile.
C19_RegexSetFusion ==
    (GroupOfLeaves(root) /\ opt_pc \in {"bail", "compiled"}) =>
        LET n == Len(root.children)
        IN IF n = 0 THEN opt_pc = "bail"
           ELSE /\ opt_pc = "compiled"
                /\ matcher = [kind |-> IF root.type = "Any" \/ n = 1
                                       THEN "AnyRegexes" ELSE "AllRegexes",
                               regexes |-> LeafRegexes(root)]
                /\ \A s \in Inputs :
                      is_match(matcher, s) <=>
                          IF root.type = "Any"
                          THEN \E i \in 1..n : root.children[i].leaf \in s
                          ELSE \A i \in 1..n : root.children[i].leaf \in s

\* An All of three leaves, one regex twice, compiled to one AllRegexes node
\* with three regexes.
C19_Witness ==
    /\ opt_pc = "compiled"
    /\ root = All(<<Leaf("foo"), Leaf("bar"), Leaf("foo")>>)
    /\ matcher.kind = "AllRegexes"
    /\ Len(matcher.regexes) = 3

\* The pattern handed to compile is a group of two negated leaves.
TwoNegatedLeaves(node) ==
    /\ IsGroup(node)
    /\ Len(node.children) = 2
    /\ \A i \in 1..2 : /\ node.children[i].type = "Not"
                        /\ node.children[i].child.type = "Leaf"

\* C20 as stated: the compiled form of Any[Not(a), Not(b)] accepts an input
\* iff neither a nor b matches it.
C20_DeMorganNeither ==
    (opt_pc = "compiled" /\ root.type = "Any" /\ TwoNegatedLeaves(root)) =>
        LET a == root.children[1].child.leaf
            b == root.children[2].child.leaf
        IN \A s \in Inputs :
              /\ is_match(matcher, s) <=> ~(a \in s \/ b \in s)
              /\ is_match(matcher, s) <=> (~(a \in s) /\ ~(b \in s))

\* C20, amended: the compiled form of Any[Not(a), Not(b)] accepts an input
\* iff not both a and b match it, that is iff a does not match or b does
\* not match; the compiled form of All[Not(a), Not(b)] accepts iff neither
\* matches.
C20_DeMorgan ==
    (opt_pc = "compiled" /\ TwoNegatedLeaves(root)) =>
        LET a == root.children[1].child.leaf
            b == root.children[2].child.leaf
        IN \A s \in Inputs :
              IF root.type = "Any"
              THEN /\ is_match(matcher, s) <=> ~(a \in s /\ b \in s)
                   /\ is_match(matcher, s) <=> (~(a \in s) \/ ~(b \in s))
              ELSE /\ is_match(matcher, s) <=> ~(a \in s \/ b \in s)
                   /\ is_match(matcher, s) <=> (~(a \in s) /\ ~(b \in s))

\* Any[Not(foo), Not(bar)] was rewritten and compiled to the negation of one
\* AllRegexes node.
C20_Witness ==
    /\ opt_pc = "compiled"
    /\ root = Any(<<Not(Leaf("foo")), Not(Leaf("bar"))>>)
    /\ matcher = [kind |-> "Not", child |-> AllRegexes(<<"foo", "bar">>)]

\* The pattern handed to compile is Not(All[Not(l1), .., Not(ln)]) with
\* leaves li.
NotAllOfNegatedLeaves(node) ==
    /\ node.type = "Not"
    /\ node.child.type = "All"
    /\ \A i \in 1..Len(node.child.children) :
          /\ node.child.children[i].type = "Not"
          /\ node.child.children[i].child.type = "Leaf"

\* C21: De-Morgan plus fusion.  For n >= 2 leaves,
\* Not(All[Not(l1), .., Not(ln)]) compiles, and the result is one
\* AnyRegexes node with the n regexes l1..ln, which matches an input iff at
\* least one li matches it.
C21_DeMorganFusion ==
    (/\ NotAllOfNegatedLeaves(root)
     /\ Len(root.child.children) >= 2
     /\ opt_pc \in {"bail", "compiled"}) =>
        LET n == Len(root.child.children)
        IN /\ opt_pc = "compiled"
           /\ matcher = AnyRegexes([i \in 1..n |->
                                       root.child.children[i].child.leaf])
           /\ \A s \in Inputs :
                 is_match(matcher, s) <=>
                     \E i \in 1..n : root.child.children[i].child.leaf \in s

\* Not(All[Not(foo), Not(bar), Not(foo)]) compiled to one AnyRegexes node
\* with three regexes.
C21_Witness ==
    /\ opt_pc = "compiled"
    /\ root = Not(All(<<Not(Leaf("foo")), Not(Leaf("bar")),
                        Not(Leaf("foo"))>>))
    /\ matcher = AnyRegexes(<<"foo", "bar", "foo">>)

EmptyGroup(node) == IsGroup(node) /\ node.children = <<>>

\* The root is an empty group, a group of empty groups only, or the
\* negation of an empty group.
TopLevelDrop(node) ==
    \/ EmptyGroup(node)
    \/ /\ IsGroup(node)
       /\ \A i \in 1..Len(node.children) : EmptyGroup(node.children[i])
    \/ node.type = "Not" /\ EmptyGroup(node.child)

\* C22: top-level drop is an error.  For such a root optimize never returns
\* a tree and nothing is compiled: it is still in its first pass, at the
\* first rule and with the tree untouched, or it has failed with
\* 'Reduced to nothingness'.
C22_TopLevelDrop ==
    (opt_pc # "idle" /\ TopLevelDrop(root)) =>
        /\ opt_pc \in {"while", "for", "bail"}
        /\ matcher = None
        /\ current = root
        /\ passes <= 1
        /\ rule_idx <= 1

\* optimize failed on a group of two empty groups.
C22_Witness ==
    /\ opt_pc = "bail"
    /\ root = Any(<<All(<<>>), Any(<<>>)>>)

\* Whether some Any or All node of the tree, at any depth, has no children.
RECURSIVE HasEmptyGroup(_)
HasEmptyGroup(node) ==
    CASE node.type = "Leaf" -> FALSE
      [] IsGroup(node) ->
            \/ node.children = <<>>
            \/ \E i \in 1..Len(node.children) :
                  HasEmptyGroup(node.children[i])
      [] node.type = "Not" -> HasEmptyGroup(node.child)

\* An Any or All whose children are not all leaves of one fusable kind:
\* not all whole-URL regex leaves and not all domain leaves.
MixedGroup(node) ==
    /\ IsGroup(node)
    /\ \E i \in 1..Len(node.children) :
          \/ node.children[i].type # "Leaf"
          \/ node.children[i].leaf.kind # "Regex"
    /\ \E i \in 1..Len(node.children) :
          \/ node.children[i].type # "Leaf"
          \/ node.children[i].leaf.kind # "Domain"

\* Whether the group accepts a URL by its children: at least one child of an
\* Any, every child of an All, a whole-URL leaf testing the URL string and a
\* domain leaf the host.
AcceptsByChildren(node, url) ==
    IF node.type = "Any"
    THEN \E i \in 1..Len(node.children) :
            link_eval_naive(node.children[i], url)
    ELSE \A i \in 1..Len(node.children) :
            link_eval_naive(node.children[i], url)

\* The matcher is a plain Any or All of the type of the group, holding one
\* matcher per child of the group, and accepts a URL iff the children do.
FallsBack(node, m) ==
    /\ m.kind = node.type
    /\ Len(m.children) = Len(node.children)
    /\ \A url \in Urls : link_is_match(m, url) = AcceptsByChildren(node, url)

\* C23 as stated, of the group in the pattern handed to compile: a compiled
\* group without empty groups whose children are not all leaves of one
\* fusable kind has become a plain Any or All holding one matcher per child.
C23_MixedFallbackOfPattern ==
    (opt_pc \in {"compiled", "matched"} /\ MixedGroup(root)
     /\ ~HasEmptyGroup(root)) =>
        FallsBack(root, matcher)

\* C23: mixed groups fall back.  When the children of the Any or All link
\* group that optimize returns are not all leaves of one fusable kind,
\* compile produces a plain Any or All holding one matcher per child of that
\* group, the matcher from of the child, and it accepts a URL iff at least
\* one child (Any) or every child (All) accepts it, a whole-URL leaf testing
\* the URL string and a domain leaf the host.
C23_MixedFallback ==
    (opt_pc \in {"compiled", "matched"} /\ MixedGroup(current)) =>
        /\ FallsBack(current, matcher)
        /\ \A i \in 1..Len(current.children) :
              matcher.children[i] = LinkMatcherFrom(current.children[i])

\* The group of one whole-URL leaf and one domain leaf is compiled to a plain
\* Any of an AnyRegexes and an AnyDomains.
C23_Witness ==
    /\ opt_pc = "compiled"
    /\ root = Any(<<Leaf(LinkRegex("casino")), Leaf(LinkDomain("spam.test"))>>)
    /\ MixedGroup(current)
    /\ matcher = [kind |-> "Any",
                  children |-> <<AnyRegexes(<<"casino">>),
                                 AnyDomains(<<"spam.test">>)>>]

\* The collection of the text input that a set-valued leaf ranges over.
LeafCollection(leaf, input) ==
    CASE leaf.kind = "Link" -> input.links
      [] leaf.kind = "Mention" -> input.mentions
      [] leaf.kind = "Hashtag" -> input.hashtags

\* Whether the matcher held by a set-valued leaf accepts one member of its
\* collection.
LeafAccepts(leaf, x) ==
    CASE leaf.kind = "Link" -> link_is_match(leaf.matcher, x)
      [] leaf.kind = "Mention" -> user_is_match(leaf.matcher, x)
      [] leaf.kind = "Hashtag" -> is_match(leaf.matcher, x)

\* C24: set-valued text leaves.  A rule Post(Text(leaf)) with a compiled
\* Link, Mention or Hashtag leaf matches a post iff at least one URL in
\* links, mention in mentions or hashtag in hashtags is accepted by the
\* matcher the leaf holds; with an empty collection it does not match; and
\* when the link pattern is the single leaf Domain d it matches iff some link
\* of the post has a host name that d matches.
C24_SetValuedLeaves ==
    verdict # None =>
        LET leaf == verdict.leaf
            members == LeafCollection(leaf, verdict.input)
        IN /\ verdict.result = (\E x \in members : LeafAccepts(leaf, x))
           /\ members = {} => verdict.result = FALSE
           /\ \A d \in {"spam.test"} :
                 (leaf.kind = "Link" /\ root = Leaf(LinkDomain(d))) =>
                    verdict.result =
                        (\E url \in verdict.input.links :
                            /\ url.domain # None
                            /\ RegexIsMatch(d, url.domain.value))

\* The rule Post(Text(Link(Domain spam.test))) has matched a post with two
\* links of which only one has a host that the domain pattern matches.
C24_Witness ==
    /\ opt_pc = "matched"
    /\ root = Leaf(LinkDomain("spam.test"))
    /\ verdict # None
    /\ verdict.leaf.kind = "Link"
    /\ verdict.input.links = {[str |-> {}, domain |-> Some({"spam.test"})],
                              [str |-> {"casino"}, domain |-> None]}
    /\ verdict.result = TRUE

\* One iteration of `for rule in config.rules.iter()` (status.rs:30-52) on
\* the accumulators acc = [report_builder, highest_restrict].
walk_rule(acc, rule, input) ==
    LET fired == rule_fires(rule, input)
        builder == IF acc.report_builder = None THEN ReportBuilderDefault
                   ELSE acc.report_builder.value
    IN [report_builder |->
            IF fired /\ rule.report # None
            THEN Some(rule_violation(builder, rule.name, rule.report.value))
            ELSE acc.report_builder,
        highest_restrict |->
            IF fired /\ rule.restrict # None
            THEN IF acc.highest_restrict # None
                 THEN IF restrict_gt(rule.restrict.value,
                                     acc.highest_restrict.value)
                      THEN rule.restrict
                      ELSE acc.highest_restrict
                 ELSE rule.restrict
            ELSE acc.highest_restrict]

\* The whole rule loop, from the given accumulators.
RECURSIVE walk_rules(_, _, _)
walk_rules(rs, input, acc) ==
    IF rs = <<>> THEN acc
    ELSE walk_rules(Tail(rs), input, walk_rule(acc, Head(rs), input))

\* let mut report_builder = None; let mut highest_restrict = None;
FreshAccumulators == [report_builder |-> None, highest_restrict |-> None]

\* The requests handle_status makes for a post under a config and a
\* spam-filter verdict, report_result being the result of the report call.
RequestsFor(cfg, status, rspamd, report_result) ==
    LET input == [RuleMatcherInput(status) EXCEPT !.rspamd = rspamd]
        walked == walk_rules(cfg.rules, input, FreshAccumulators)
        report == IF walked.report_builder # None
                  THEN <<AddReportRequest(status, walked.report_builder.value)>>
                  ELSE <<>>
        action == IF walked.highest_restrict # None
                  THEN <<AccountActionRequest(status,
                            walked.highest_restrict.value,
                            IF walked.report_builder # None
                            THEN result_ok(report_result) ELSE None)>>
                  ELSE <<>>
    IN [report |-> report, action |-> action]

\* The event worker w is handling: the last one it received.
EventOf(w) == processed[w][Len(processed[w])].event

\* The locals of a running handle_status come from its event alone, and its
\* requests are those that the event, the config and the verdict determine.
OnlyThisEvent(w) ==
    LET h == hs[w]
        e == EventOf(w)
        made == [i \in 1..Len(h.calls) |-> h.calls[i].request]
        due == RequestsFor(config[w], e.status, h.input.rspamd,
                           IF h.calls = <<>> THEN Err ELSE h.calls[1].result)
    IN /\ e.kind \in {"status.created", "status.updated"}
       /\ h.status = e.status
       /\ h.input.account = e.status.account.text
       /\ h.input.post = e.status.text
       /\ h.pc = "scan" =>
              /\ h.report_builder = None
              /\ h.highest_restrict = None
              /\ h.input.rspamd = None
              /\ h.report_id = None
              /\ h.calls = <<>>
       /\ h.pc \in {"scan", "rules"} => made = <<>>
       /\ h.pc = "restrict" => made = due.report
       /\ h.pc = "ok" => made = due.report \o due.action
       /\ (h.pc = "err" /\ made # <<>>) => made = due.report \o due.action

\* C25: no state across events.  Whatever events a worker has processed,
\* the accumulator, highest_restrict and the matcher input of a running
\* handle_status are those created for its event, the report and account
\* action it requests are determined by that event, the compiled config and
\* the spam-filter verdict, and no step changes the worker's compiled rules
\* or the settings.
C25_NoStateAcrossEvents ==
    /\ [](\A w \in Workers : wpc[w] = "handle_status" => OnlyThisEvent(w))
    /\ [][config' = config /\ settings' = settings]_vars

\* After a post that was reported and restricted, the worker has handled a
\* post that nothing matches and has made no request for it.
C25_Witness ==
    /\ wpc["w1"] = "handle_status"
    /\ Len(processed["w1"]) = 2
    /\ processed["w1"][1].event.kind = "status.created"
    /\ processed["w1"][1].event.status = StatusFoo
    /\ processed["w1"][1].result = "ok"
    /\ EventOf("w1").status = StatusNone
    /\ hs["w1"].input.rspamd = Some("no action")
    /\ hs["w1"].pc = "ok"
    /\ hs["w1"].calls = <<>>

\* A node that one of the rewrite rules after drop_empty would shrink: a Not
\* of a Not, a group of one child, a group with a child group of its own
\* type, or a group of two or more children that are all Not.
Rewritable(node) ==
    \/ node.type = "Not" /\ node.child.type = "Not"
    \/ /\ IsGroup(node)
       /\ \/ Len(node.children) = 1
          \/ \E i \in 1..Len(node.children) :
                node.children[i].type = node.type
          \/ /\ Len(node.children) >= 2
             /\ \A i \in 1..Len(node.children) :
                   node.children[i].type = "Not"

\* Whether some node of the tree, at any depth, is rewritable.
RECURSIVE HasRewritable(_)
HasRewritable(node) ==
    \/ Rewritable(node)
    \/ CASE node.type = "Leaf" -> FALSE
         [] IsGroup(node) ->
               \E i \in 1..Len(node.children) :
                   HasRewritable(node.children[i])
         [] node.type = "Not" -> HasRewritable(node.child)

\* C26: fixed point at every node.  In the tree returned by a successful
\* optimize no node at any depth is a Not of a Not, an Any or All with
\* exactly one child, an Any with an Any child, an All with an All child, or
\* an Any or All of two or more children that are all Not.
C26_FixedPointEverywhere ==
    opt_pc \in {"ok", "compiled"} => ~HasRewritable(current)

\* C27: empty groups are dropped everywhere.  In the tree returned by a
\* successful optimize no Any or All node without children remains at any
\* depth.
C27_NoEmptyGroupLeft ==
    opt_pc \in {"ok", "compiled"} => ~HasEmptyGroup(current)

\* C28: optimize never fails on a tree without empty groups.  When every Any
\* and All node of the tree handed to optimize has at least one child, no
\* rule application reduces the tree to nothing, optimize does not fail with
\* 'Reduced to nothingness', and the tree it holds after any number of
\* passes has no empty Any or All node either.
C28_NoFailureWithoutEmptyGroups ==
    (opt_pc # "idle" /\ ~HasEmptyGroup(root)) =>
        /\ opt_pc # "bail"
        /\ ~HasEmptyGroup(current)
        /\ (opt_pc = "for" /\ rule_idx <= NumRules) =>
               visit(current, rule_idx) # None

\* optimize has returned a rewritten tree after three passes on a tree
\* without empty groups.
C28_Witness ==
    /\ opt_pc = "ok"
    /\ ~HasEmptyGroup(root)
    /\ passes >= 3
    /\ current # root

\* C29: optimize is idempotent.  The tree a successful optimize returns is
\* optimize of the tree it was given, and optimize of the returned tree
\* succeeds and returns a tree equal to it.
C29_Idempotent ==
    opt_pc \in {"ok", "compiled"} =>
        /\ optimize(root) = Ok(current)
        /\ optimize(optimize(root).value) = optimize(root)

\* optimize has returned, after three passes, a rewritten tree that a second
\* optimize returns as it is.
C29_Witness ==
    /\ opt_pc = "ok"
    /\ passes >= 3
    /\ current # root
    /\ optimize(current) = Ok(current)

\* The permutations of 1..n and a rule list rearranged by one.
Permutations(n) ==
    {f \in [1..n -> 1..n] : \A i, j \in 1..n : f[i] = f[j] => i = j}

Permuted(rs, f) == [i \in 1..Len(rs) |-> rs[f[i]]]

\* C30: rule order does not matter.  The report (rule names and sorted
\* comment, rule ids, category, forward flag) and the account action that
\* handle_status requests for a post and a spam-filter verdict are those
\* that every permutation of the rules of its config yields for them.
C30_RuleOrderIrrelevant ==
    \A w \in Workers :
        (wpc[w] = "handle_status" /\ hs[w].pc \in {"restrict", "ok"}) =>
            LET h == hs[w]
                made == [i \in 1..Len(h.calls) |-> h.calls[i].request]
            IN \A f \in Permutations(Len(config[w].rules)) :
                  LET due == RequestsFor(
                                 [config[w] EXCEPT
                                     !.rules = Permuted(config[w].rules, f)],
                                 h.status, h.input.rspamd,
                                 IF h.calls = <<>> THEN Err
                                 ELSE h.calls[1].result)
                  IN made = IF h.pc = "restrict" THEN due.report
                            ELSE due.report \o due.action

\* Two rules with different report specs and restrictions both fired, and
\* the report and the account action were requested.
C30_Witness ==
    /\ wpc["w1"] = "handle_status"
    /\ hs["w1"].pc = "ok"
    /\ Len(config["w1"].rules) = 2
    /\ FiredRules("w1") = {1, 2}
    /\ config["w1"].rules[1].name # config["w1"].rules[2].name
    /\ config["w1"].rules[1].restrict = Some("Sensitive")
    /\ config["w1"].rules[2].restrict = Some("Suspend")
    /\ config["w1"].rules[1].report # None
    /\ config["w1"].rules[2].report # None
    /\ config["w1"].rules[1].report.value.forward
    /\ ~config["w1"].rules[2].report.value.forward
    /\ Len(hs["w1"].calls) = 2
    /\ hs["w1"].calls[1].request.forward
    /\ hs["w1"].calls[2].request.action = "Suspend"

====
